---------------------------- MODULE Spec2Model ----------------------------
(***************************************************************************)
(* A model of the lazy iteration and indexing engine of data-forge-js:     *)
(* the array iterator, the multi iterator, the Series / DataFrame          *)
(* operator family and the batched order-by engine.                        *)
(*                                                                         *)
(* JavaScript values are encoded as follows.                               *)
(*   - an array is a sequence;                                             *)
(*   - "undefined" returned by a getter is the empty sequence <<>> and a   *)
(*     defined result x is the one-element sequence <<x>>;                 *)
(*   - an optional argument is a record [given |-> BOOLEAN, a |-> value].  *)
(***************************************************************************)
EXTENDS Integers, Sequences, FiniteSets, TLC

VARIABLES
    \* ---- ArrayIterator (one iterator object) ----
    itPc,        \* "new" before the constructor ran, "ready", or "threw"
    arr,         \* the array the iterator walks
    index,       \* the optional index array: [given, a]
    rowIndex,    \* the iterator's private rowIndex variable
    results,     \* history: what each moveNext call returned, in call order
                 \* (the calls realize makes included)
    realized     \* history: one [at, upto, array, items] per realize call:
                 \* how many moveNext calls came before it and how many
                 \* had been made when it returned, and the array returned

VARIABLES
    \* ---- MultiIterator (one iterator object over child ArrayIterators) ----
    muPc,        \* "new" before the constructor ran, or "ready"
    children,    \* the child iterators, each [arr, rowIndex]
    muOk,        \* whether the last moveNext call returned true
    muResults,   \* history: what each moveNext call returned, in call order
                 \* (the calls realize makes included)
    muRealized   \* history: one [at, upto, items] per realize call

VARIABLES
    \* ---- a Series or DataFrame and the chain of operators applied to it ----
    cur,         \* the object the last operator returned (the source at first)
    call,        \* the call that returned cur, [op, p, n, m, self], when it
                 \* is one of the Recorded operators; NoCall otherwise
    depth,       \* how many operators have been applied to the source
    sorted,      \* [on, self, batch]: whether cur is a sorted object (one
                 \* with thenBy / thenByDescending), and the closure it holds
    srcIdx       \* the index labels of the source, by source position

VARIABLES
    \* ---- a source and the sorted objects made from it ----
    source,      \* the Series or DataFrame orderBy is called on
    heap,        \* the batch arrays allocated so far; an array's reference is
                 \* its position here
    objs,        \* the sorted objects returned so far, each holding the
                 \* closure of its executeOrderBy call
    lastCall     \* the last call made: [op, arg, threw, objsBefore,
                 \* heapBefore, result]

VARIABLES
    \* ---- a Series or DataFrame and the iterators getIterator returned ----
    owner,       \* the Series or DataFrame getIterator is called on
    allocated,   \* the iterator objects made so far, each the private
                 \* rowIndex of its closure; an iterator's reference is its
                 \* position here
    cursors      \* one [it, initial, log] per getIterator call: the
                 \* reference returned, what getCurrent gave before any
                 \* moveNext, and history: one [ret, current] per moveNext
                 \* call made through this reference

VARIABLES
    \* ---- dataForge.use ----
    registeredPlugins,  \* the module's registeredPlugins object: for each
                        \* property key, the plugin stored under it (<<>>
                        \* when the object has no such property)
    useCalls            \* history: one [plugin, threw, invoked] per use call

itVars == <<itPc, arr, index, rowIndex, results, realized>>
opVars == <<cur, call, depth, sorted, srcIdx>>
muVars == <<muPc, children, muOk, muResults, muRealized>>
lzVars == <<source, heap, objs, lastCall>>
cuVars == <<owner, allocated, cursors>>
plVars == <<registeredPlugins, useCalls>>

vars == <<itVars, muVars, opVars, lzVars, cuVars, plVars>>

-----------------------------------------------------------------------------
(* Bounds of the model. *)

\* longest array handed to an iterator / longest source of a Series
MaxLen == 3
\* most moveNext calls made on one iterator
MaxCalls == 6

\* longest source array of a Series or DataFrame
MaxSrcLen == 3
\* longest source array of a DataFrame
MaxFrameLen == 2
\* longest chain of operators applied to a source
MaxChain == 2

\* most sorted objects made from one source
MaxObjs == 3
\* most sorted objects made from one source whose rows are then read
MaxReadObjs == 2
\* most reads (of values or of an index) made of the sorted objects
MaxReads == 2
\* longest source of the sorted objects that are read
MaxLazyLen == 2

\* most child iterators of one MultiIterator
MaxChildren == 2
\* longest array under a child iterator of a MultiIterator
MaxChildLen == 3
\* most realize calls made on one iterator
MaxRealize == 2
\* longest index handed to reindex
MaxNewIndexLen == 2
\* most iterators asked of one object
MaxCursors == 2
\* longest source of the object the iterators are asked of
MaxCursorLen == 2
\* most dataForge.use calls
MaxUseCalls == 4

\* the cell values arrays are built from
Values == {1, 2}
\* the labels explicit index arrays are built from
Labels == {7, 8}

SeqsUpTo(S, n) == UNION {[1..k -> S] : k \in 0..n}

Undefined == <<>>
Def(x) == <<x>>

-----------------------------------------------------------------------------
(* ArrayIterator *)

\* the constructor's assertion on the two lengths, made if (index): every
\* array, the empty one too, is truthy
ArrayIteratorAccepts_emptyIndexIgnored(a, ix) ==
    (ix.given /\ ix.a # <<>>) => Len(a) = Len(ix.a)

ArrayIteratorAccepts(a, ix) == ix.given => Len(a) = Len(ix.a)

moveNext_offByOne(a, ri) == [rowIndex |-> ri + 1, ret |-> (ri + 1) <= Len(a)]

\* moveNext: return ++rowIndex < arr.length
moveNext(a, ri) == [rowIndex |-> ri + 1, ret |-> (ri + 1) < Len(a)]

getCurrent(a, ri) ==
    IF ri >= 0 /\ ri < Len(a) THEN Def(a[ri + 1]) ELSE Undefined

getCurrentIndex_noIndexArray(a, ix, ri) ==
    IF ri >= 0 /\ ri < Len(a) THEN Def(ri) ELSE Undefined

getCurrentIndex(a, ix, ri) ==
    IF ri >= 0 /\ ri < Len(a)
    THEN IF ix.given THEN Def(ix.a[ri + 1]) ELSE Def(ri)
    ELSE Undefined

realize_wholeArray(a, ri) == a

RECURSIVE realize(_, _)
\* ArrayIterator.realize / the while (moveNext) push(getCurrent) loop of
\* toValues, from the iterator's present position
realize(a, ri) ==
    LET r == moveNext(a, ri)
    IN IF r.ret
       THEN <<getCurrent(a, r.rowIndex)[1]>> \o realize(a, r.rowIndex)
       ELSE <<>>

RECURSIVE realizeEnd(_, _)
\* rowIndex when realize's loop has ended
realizeEnd(a, ri) ==
    LET r == moveNext(a, ri)
    IN IF r.ret THEN realizeEnd(a, r.rowIndex) ELSE r.rowIndex

\* what the moveNext calls of a realize loop that pushed n elements returned
LoopReturns(n) == [i \in 1..(n + 1) |-> i <= n]

NoIndex == [given |-> FALSE, a |-> <<>>]

IterIdle ==
    /\ itPc = "new"
    /\ arr = <<>>
    /\ index = NoIndex
    /\ rowIndex = -1
    /\ results = <<>>
    /\ realized = <<>>

\* new ArrayIterator(arr, index)
Construct ==
    /\ itPc = "new"
    /\ \E a \in SeqsUpTo(Values, MaxLen) :
       \E ix \in {NoIndex} \cup
                 {[given |-> TRUE, a |-> l] : l \in SeqsUpTo(Labels, MaxLen)} :
          /\ arr' = a
          /\ index' = ix
          /\ itPc' = IF ArrayIteratorAccepts(a, ix) THEN "ready" ELSE "threw"
    /\ rowIndex' = -1
    /\ results' = <<>>
    /\ realized' = <<>>

\* one call of iterator.moveNext()
MoveNext ==
    /\ itPc = "ready"
    /\ Len(results) < MaxCalls
    /\ LET r == moveNext(arr, rowIndex)
       IN /\ rowIndex' = r.rowIndex
          /\ results' = Append(results, r.ret)
    /\ UNCHANGED <<itPc, arr, index, realized>>

\* one call of iterator.realize(): the output array is allocated by the call
Realize ==
    /\ itPc = "ready"
    /\ Len(realized) < MaxRealize
    /\ LET output == realize(arr, rowIndex)
       IN /\ rowIndex' = realizeEnd(arr, rowIndex)
          /\ results' = results \o LoopReturns(Len(output))
          /\ realized' = Append(realized,
                                [at |-> Len(results),
                                 upto |-> Len(results) + Len(output) + 1,
                                 array |-> "output",
                                 items |-> output])
    /\ UNCHANGED <<itPc, arr, index>>

MultiIdle ==
    /\ muPc = "new"
    /\ children = <<>>
    /\ muOk = FALSE
    /\ muResults = <<>>
    /\ muRealized = <<>>

OpIdle ==
    /\ cur = [kind |-> "none"]
    /\ call = [op |-> "none", p |-> "", n |-> 0, m |-> 0, self |-> [kind |-> "none"]]
    /\ depth = 0
    /\ sorted = [on |-> FALSE, self |-> [kind |-> "none"], batch |-> <<>>]
    /\ srcIdx = <<>>

NoLastCall ==
    [op |-> "none", arg |-> [type |-> "none"], threw |-> FALSE,
     objsBefore |-> 0, heapBefore |-> <<>>, result |-> <<>>]

LazyIdle ==
    /\ source = [kind |-> "none"]
    /\ heap = <<>>
    /\ objs = <<>>
    /\ lastCall = NoLastCall

CursorIdle ==
    /\ owner = [kind |-> "none"]
    /\ allocated = <<>>
    /\ cursors = <<>>

PluginIdle ==
    /\ registeredPlugins = <<>>
    /\ useCalls = <<>>

IterInit == IterIdle /\ MultiIdle /\ PluginIdle /\ CursorIdle /\ OpIdle /\ LazyIdle

IterNext == (Construct \/ MoveNext \/ Realize) /\ UNCHANGED <<muVars, opVars, lzVars, cuVars, plVars>>

SpecIter == IterInit /\ [][IterNext]_vars

-----------------------------------------------------------------------------
(* Claims about the ArrayIterator *)

\* the number of moveNext calls that returned true so far
Successes == Cardinality({i \in 1..Len(results) : results[i]})

\* C1: an ArrayIterator over A returns true from exactly the first len(A)
\* calls of moveNext and false from every later call, however many calls
\* follow (an empty A gives false on the first call).
C1_MoveNextTrueExactlyLenTimes ==
    itPc = "ready" =>
        \A i \in 1..Len(results) : results[i] = (i <= Len(arr))

C1_Witness ==
    /\ itPc = "ready"
    /\ Len(arr) = 2
    /\ Len(results) = 5

\* C2: getCurrent and getCurrentIndex are undefined before the first
\* moveNext and when the last moveNext returned false; after the k-th
\* successful moveNext getCurrent is A[k-1] and getCurrentIndex is k-1
\* without an index array, index[k-1] with one.
C2_CurrentValidWindow ==
    itPc = "ready" =>
        IF results = <<>> \/ ~results[Len(results)]
        THEN /\ getCurrent(arr, rowIndex) = Undefined
             /\ getCurrentIndex(arr, index, rowIndex) = Undefined
        ELSE LET k == Successes
             IN /\ k >= 1 /\ k <= Len(arr)
                /\ getCurrent(arr, rowIndex) = Def(arr[k])
                /\ getCurrentIndex(arr, index, rowIndex) =
                       (IF index.given THEN Def(index.a[k]) ELSE Def(k - 1))

C2_Witness ==
    /\ itPc = "ready"
    /\ index.given
    /\ Len(arr) = 2
    /\ Len(results) = 2
    /\ results[2]
    /\ getCurrentIndex(arr, index, rowIndex) = Def(index.a[2])

\* the number of the first n moveNext calls that returned true
SuccessesIn(n) == Cardinality({i \in 1..n : results[i]})

\* C14: realize on a fresh ArrayIterator over A returns a new array equal to
\* A; called after k successful moveNext calls it returns only the remaining
\* elements A[k..]; after realize the cursor is consumed: moveNext returns
\* false and a second realize returns an empty array.
C14_RealizeDrainsAndConsumes ==
    itPc = "ready" =>
        \A c \in 1..Len(realized) :
            /\ realized[c].array = "output"
            /\ realized[c].items =
                   SubSeq(arr, SuccessesIn(realized[c].at) + 1, Len(arr))
            /\ realized[c].at = 0 => realized[c].items = arr
            /\ \A j \in (realized[c].upto + 1)..Len(results) : ~results[j]
            /\ c >= 2 => realized[c].items = <<>>

\* one moveNext, then realize of the two elements left, then a moveNext
\* and a second realize
C14_Witness ==
    /\ itPc = "ready"
    /\ Len(arr) = 3
    /\ Len(realized) = 2
    /\ realized[1].at = 1
    /\ Len(realized[1].items) = 2
    /\ realized[2].at > realized[1].upto
    /\ realized[2].items = <<>>

\* C15: constructing an ArrayIterator with an index array whose length
\* differs from the value array's fails at construction (also when the
\* index array is empty and the value array is not); with equal lengths
\* construction succeeds.
C15_IndexLengthChecked ==
    itPc # "new" =>
        (itPc = "threw") = (index.given /\ Len(index.a) # Len(arr))

\* an empty index array given for a value array of one element
C15_Witness ==
    /\ itPc = "threw"
    /\ index.given
    /\ index.a = <<>>
    /\ Len(arr) = 1

-----------------------------------------------------------------------------
(* MultiIterator *)

RECURSIVE AdvanceChildren(_, _)
\* move the children forward in array order, stopping at the first one that
\* is exhausted
AdvanceChildren(ch, i) ==
    IF i > Len(ch)
    THEN [children |-> ch, ret |-> TRUE]
    ELSE LET r == moveNext(ch[i].arr, ch[i].rowIndex)
             moved == [ch EXCEPT ![i].rowIndex = r.rowIndex]
         IN IF r.ret
            THEN AdvanceChildren(moved, i + 1)
            ELSE [children |-> moved, ret |-> FALSE]

multiMoveNext_vacuous(ch) == AdvanceChildren(ch, 1)

\* true as soon as the first child moved
multiMoveNext_firstChildOnly(ch) ==
    IF Len(ch) = 0
    THEN [children |-> ch, ret |-> FALSE]
    ELSE [children |-> AdvanceChildren(ch, 1).children,
          ret |-> moveNext(ch[1].arr, ch[1].rowIndex).ret]

\* every child moved, true while any child has an element
multiMoveNext_anyChild(ch) ==
    [children |-> [i \in 1..Len(ch) |->
                     [ch[i] EXCEPT !.rowIndex = moveNext(ch[i].arr, ch[i].rowIndex).rowIndex]],
     ret |-> \E i \in 1..Len(ch) : moveNext(ch[i].arr, ch[i].rowIndex).ret]

\* MultiIterator.moveNext: false at once with no children, otherwise true
\* only if every child moved
multiMoveNext(ch) ==
    IF Len(ch) = 0
    THEN [children |-> ch, ret |-> FALSE]
    ELSE AdvanceChildren(ch, 1)

multiGetCurrent_lastChildFirst(ch, ok) ==
    IF ok
    THEN Def([i \in 1..Len(ch) |->
                getCurrent(ch[Len(ch) + 1 - i].arr, ch[Len(ch) + 1 - i].rowIndex)[1]])
    ELSE Undefined

\* MultiIterator.getCurrent: the children's current values, in child order
multiGetCurrent(ch, ok) ==
    IF ok
    THEN Def([i \in 1..Len(ch) |-> getCurrent(ch[i].arr, ch[i].rowIndex)[1]])
    ELSE Undefined

RECURSIVE multiRealize(_)
\* the same loop over a MultiIterator
multiRealize(ch) ==
    LET r == multiMoveNext(ch)
    IN IF r.ret
       THEN <<multiGetCurrent(r.children, TRUE)[1]>> \o multiRealize(r.children)
       ELSE <<>>

RECURSIVE multiRealizeEnd(_)
\* the children when the loop of realize has ended
multiRealizeEnd(ch) ==
    LET r == multiMoveNext(ch)
    IN IF r.ret THEN multiRealizeEnd(r.children) ELSE r.children

\* the arrays under the children: 1, 2, 1, ... and 2, 1, 2, ... of every
\* length up to MaxChildLen
ChildArrays ==
    {[i \in 1..n |-> IF (i + f) % 2 = 1 THEN 1 ELSE 2] :
        n \in 0..MaxChildLen, f \in {0, 1}}

\* new MultiIterator(iterators), each child a fresh ArrayIterator
MultiConstruct ==
    /\ muPc = "new"
    /\ \E as \in SeqsUpTo(ChildArrays, MaxChildren) :
          children' = [i \in 1..Len(as) |-> [arr |-> as[i], rowIndex |-> -1]]
    /\ muPc' = "ready"
    /\ muOk' = FALSE
    /\ muResults' = <<>>
    /\ muRealized' = <<>>

\* one call of multi.moveNext()
MultiMoveNext ==
    /\ muPc = "ready"
    /\ Len(muResults) < MaxCalls
    /\ LET r == multiMoveNext(children)
       IN /\ children' = r.children
          /\ muOk' = r.ret
          /\ muResults' = Append(muResults, r.ret)
    /\ UNCHANGED <<muPc, muRealized>>

\* one call of multi.realize()
MultiRealize ==
    /\ muPc = "ready"
    /\ Len(muRealized) < MaxRealize
    /\ LET output == multiRealize(children)
       IN /\ children' = multiRealizeEnd(children)
          /\ muOk' = FALSE
          /\ muResults' = muResults \o LoopReturns(Len(output))
          /\ muRealized' = Append(muRealized,
                                  [at |-> Len(muResults),
                                   upto |-> Len(muResults) + Len(output) + 1,
                                   items |-> output])
    /\ UNCHANGED muPc

MultiInit == IterIdle /\ MultiIdle /\ PluginIdle /\ CursorIdle /\ OpIdle /\ LazyIdle

MultiNext ==
    /\ MultiConstruct \/ MultiMoveNext \/ MultiRealize
    /\ UNCHANGED <<itVars, opVars, lzVars, cuVars, plVars>>

SpecMulti == MultiInit /\ [][MultiNext]_vars

\* C10: a MultiIterator with zero child iterators returns false from its
\* first moveNext call, and its getCurrent is undefined before any moveNext.
C10_NoChildrenCompletesAtOnce ==
    (muPc = "ready" /\ Len(children) = 0) =>
        /\ Len(muResults) >= 1 => ~muResults[1]
        /\ muResults = <<>> => multiGetCurrent(children, muOk) = Undefined

C10_Witness ==
    /\ muPc = "ready"
    /\ Len(children) = 0
    /\ Len(muResults) = 1
    /\ ~muResults[1]

\* C11: for a MultiIterator with one or more children, moveNext returns
\* true if and only if every child's moveNext returns true on that call:
\* it returns false when any child, the first or a later one, is at its end.
C11_TrueIffEveryChildMoves ==
    [][(/\ muPc = "ready"
        /\ Len(children) >= 1
        /\ Len(muResults') = Len(muResults) + 1
        /\ muRealized' = muRealized)
          => (muResults'[Len(muResults')] =
                 (\A i \in 1..Len(children) :
                     children[i].rowIndex + 1 < Len(children[i].arr)))]_vars

\* a first child of two elements over a second of one: the second call is
\* false because the later child is at its end
C11_Witness ==
    /\ muPc = "ready"
    /\ Len(children) = 2
    /\ Len(children[1].arr) = 2
    /\ Len(children[2].arr) = 1
    /\ muRealized = <<>>
    /\ muResults = <<TRUE, FALSE>>

\* the length of the shortest child array
MinChildLen ==
    CHOOSE n \in 0..MaxChildLen + 1 :
        /\ \A i \in 1..Len(children) : n <= Len(children[i].arr)
        /\ \E i \in 1..Len(children) : n = Len(children[i].arr)

\* C12: once a MultiIterator's moveNext has returned false it returns false
\* on every later call, even when some children still have elements; over
\* array iterators it yields exactly as many combined elements as the
\* shortest child has (2 for lengths 2 and 3).
C12_StaysFalseAfterShortestChild ==
    (muPc = "ready" /\ Len(children) >= 1) =>
        /\ \A i \in 1..Len(muResults) : muResults[i] = (i <= MinChildLen)
        /\ \A i \in 1..Len(muResults) : \A j \in i..Len(muResults) :
              ~muResults[i] => ~muResults[j]

\* children of lengths 2 and 3: two calls are true, the two after false
C12_Witness ==
    /\ muPc = "ready"
    /\ Len(children) = 2
    /\ Len(children[1].arr) = 2
    /\ Len(children[2].arr) = 3
    /\ muRealized = <<>>
    /\ muResults = <<TRUE, TRUE, FALSE, FALSE>>

\* the number of the first n moveNext calls of the MultiIterator that
\* returned true
MultiSuccessesIn(n) == Cardinality({i \in 1..n : muResults[i]})

\* the k-th combined element: the k-th value of every child, in child order
Combined(k) == [i \in 1..Len(children) |-> children[i].arr[k]]

\* C13: after each successful moveNext of a MultiIterator getCurrent is the
\* list of the children's current values in child order; after moveNext
\* returned false getCurrent is undefined; realize on a fresh MultiIterator
\* returns the list of all those tuples in order.
C13_CurrentIsChildValuesInOrder ==
    (muPc = "ready" /\ Len(children) >= 1) =>
        /\ (muResults # <<>> /\ muResults[Len(muResults)]) =>
              multiGetCurrent(children, muOk) =
                  Def(Combined(MultiSuccessesIn(Len(muResults))))
        /\ (muResults # <<>> /\ ~muResults[Len(muResults)]) =>
              multiGetCurrent(children, muOk) = Undefined
        /\ \A c \in 1..Len(muRealized) :
              muRealized[c].at = 0 =>
                 muRealized[c].items = [k \in 1..MinChildLen |-> Combined(k)]

\* children [1, 2] and [2, 1] after the second moveNext: getCurrent is [2, 1]
C13_Witness ==
    /\ muPc = "ready"
    /\ Len(children) = 2
    /\ children[1].arr = <<1, 2>>
    /\ children[2].arr = <<2, 1>>
    /\ muResults = <<TRUE, TRUE>>
    /\ multiGetCurrent(children, muOk) = Def(<<2, 1>>)

-----------------------------------------------------------------------------
(* Iterators and library calls, as what a full traversal of them yields.   *)
(* A lazily produced sequence is the sequence of values its iterator       *)
(* returns from getCurrent between the first moveNext and the first        *)
(* moveNext that returns false.                                            *)

\* new MultiIterator([a.getIterator(), b.getIterator()]), traversed
MultiIterator2(a, b) ==
    multiRealize(<<[arr |-> a, rowIndex |-> -1], [arr |-> b, rowIndex |-> -1]>>)

\* SkipIterator: moves upstream n times before yielding
SkipIterator(s, n) == SubSeq(s, n + 1, Len(s))

\* TakeIterator: at most n elements
TakeIterator(s, n) == SubSeq(s, 1, IF n < Len(s) THEN n ELSE Len(s))

\* A callback (predicate or selector) handed to an iterator or to linq is a
\* function value whose domain holds the elements it is called on.

\* the elements of a sequence
Range(s) == {s[i] : i \in 1..Len(s)}

\* the first position whose element fails P, or Len(s) + 1
FirstFailing(s, P) ==
    CHOOSE k \in 1..(Len(s) + 1) :
        /\ k = Len(s) + 1 \/ ~P[s[k]]
        /\ \A j \in 1..(k - 1) : P[s[j]]

\* SkipWhileIterator: drops elements while P holds, then passes through
SkipWhileIterator(s, P) == SubSeq(s, FirstFailing(s, P), Len(s))

\* a take-while that resumes after a failing element
TakeWhileIterator_resuming(s, P) == SelectSeq(s, LAMBDA x : P[x])

\* TakeWhileIterator: yields while P holds, ends at the first failing element
TakeWhileIterator(s, P) == SubSeq(s, 1, FirstFailing(s, P) - 1)

\* WhereIterator: the elements satisfying P
WhereIterator(s, P) == SelectSeq(s, LAMBDA x : P[x])

\* SelectIterator: getCurrent is F(upstream.getCurrent())
SelectIterator(s, F) == [i \in 1..Len(s) |-> F[s[i]]]

\* the argument pairs E.from(a).zip(b, F) calls F on
ZipPairs(a, b) ==
    [i \in 1..(IF Len(a) < Len(b) THEN Len(a) ELSE Len(b)) |-> <<a[i], b[i]>>]

\* E.from(a).zip(b, F).toArray(): F of the pairs up to the shorter length
LinqZip(a, b, F) == [i \in 1..Len(ZipPairs(a, b)) |-> F[ZipPairs(a, b)[i]]]

\* E.from(a).where(P).toArray()
LinqWhere(s, P) == SelectSeq(s, LAMBDA x : P[x])

\* E.from(a).select(F).toArray()
LinqSelect(s, F) == [i \in 1..Len(s) |-> F[s[i]]]

RECURSIVE Flatten(_)
Flatten(ss) == IF ss = <<>> THEN <<>> ELSE Head(ss) \o Flatten(Tail(ss))

\* E.from(a).selectMany(F).toArray()
LinqSelectMany(s, F) == Flatten([i \in 1..Len(s) |-> F[s[i]]])

\* E.from(a).reverse().toArray()
LinqReverse(s) == [i \in 1..Len(s) |-> s[Len(s) + 1 - i]]

\* E.range(0, n).toArray()
LinqRange0(n) == [i \in 1..n |-> i - 1]

\* the comparison linq applies to two sort keys
UtilsCompare(a, b) == IF a = b THEN 0 ELSE IF a > b THEN 1 ELSE -1

RECURSIVE SortContextCompare(_, _, _, _)
\* linq's comparison of rows i1 and i2 under an orderBy(..).thenBy(..)
\* chain: the first key that differs decides (negated when that key is
\* descending), and rows equal on every key compare by position.
\* ctx.keys[lv][i] is key lv of row i, ctx.desc[lv] its direction.
SortContextCompare(ctx, lv, i1, i2) ==
    LET c == UtilsCompare(ctx.keys[lv][i1], ctx.keys[lv][i2])
    IN IF c = 0
       THEN IF lv < Len(ctx.keys)
            THEN SortContextCompare(ctx, lv + 1, i1, i2)
            ELSE UtilsCompare(i1, i2)
       ELSE IF ctx.desc[lv] THEN -c ELSE c

RECURSIVE InsertIndex(_, _, _)
InsertIndex(ctx, s, i) ==
    IF s = <<>>
    THEN <<i>>
    ELSE IF SortContextCompare(ctx, 1, i, Head(s)) < 0
         THEN <<i>> \o s
         ELSE <<Head(s)>> \o InsertIndex(ctx, Tail(s), i)

RECURSIVE SortIndexes(_, _)
\* the row positions 1..n in the order the comparison puts them
SortIndexes(ctx, n) ==
    IF n = 0 THEN <<>> ELSE InsertIndex(ctx, SortIndexes(ctx, n - 1), n)

-----------------------------------------------------------------------------
(* User functions handed to the operators.  A Series value is a record     *)
(* [v, o]: v is the JavaScript value, o is the position the value had in   *)
(* the source array.  o is a history field: no operation reads it, every   *)
(* operation that derives a value from another copies it.                  *)

Preds == {"gt1", "odd"}
ApplyPred(p, e) == IF p = "gt1" THEN e.v > 1 ELSE e.v % 2 = 1

Selectors == {"swap", "one"}
ApplySelector(f, e) == [v |-> IF f = "swap" THEN 3 - e.v ELSE 1, o |-> e.o]

ManySelectors == {"twice", "dropOnes"}
ApplyManySelector(f, e) ==
    IF f = "twice"
    THEN <<e, [v |-> 3 - e.v, o |-> e.o]>>
    ELSE IF e.v = 1 THEN <<>> ELSE <<e>>

SliceBounds == {1, 8}

-----------------------------------------------------------------------------
(* Index: the label sequence of a Series.  An index is modelled by the     *)
(* labels a traversal of it yields.                                        *)

IndexSkip(ix, n) == SkipIterator(ix, n)
IndexTake(ix, n) == TakeIterator(ix, n)
IndexSlice(ix, start, end) ==
    TakeWhileIterator(
        SkipWhileIterator(ix, [l \in Range(ix) |-> l < start]),
        [l \in Range(ix) |-> l < end])
IndexReverse(ix) == LinqReverse(ix)
IndexBake(ix) == ix

-----------------------------------------------------------------------------
(* Series: [idx, vals], what getIndex().toValues() and toValues() yield.   *)

\* the index the constructor generates when config.index is not given
GeneratedIndex(vals) == LinqRange0(Len(vals))

\* new Series({ values: ..., index: ... }) with an index
Series(vals, idx) == [kind |-> "series", idx |-> idx, vals |-> vals]

\* new Series({ values: array }) and new Series({ values: array, index: .. })
SeriesFromArray(a, ix) ==
    Series(realize(a, -1), IF ix.given THEN ix.a ELSE GeneratedIndex(realize(a, -1)))

toValues(s) == s.vals

Series_skip_indexKept(s, n) == Series(SkipIterator(s.vals, n), s.idx)

Series_skip(s, n) == Series(SkipIterator(s.vals, n), IndexSkip(s.idx, n))

Series_skipWhile(s, p) ==
    LET multiIterator == MultiIterator2(s.idx, s.vals)
    IN Series(
        SkipWhileIterator(s.vals, [e \in Range(s.vals) |-> ApplyPred(p, e)]),
        SelectIterator(
            SkipWhileIterator(multiIterator,
                [pair \in Range(multiIterator) |-> ApplyPred(p, pair[2])]),
            [pair \in Range(multiIterator) |-> pair[1]]))

Series_take_indexKept(s, n) == Series(TakeIterator(s.vals, n), s.idx)

Series_take(s, n) == Series(TakeIterator(s.vals, n), IndexTake(s.idx, n))

Series_takeWhile(s, p) ==
    LET multiIterator == MultiIterator2(s.idx, s.vals)
    IN Series(
        TakeWhileIterator(s.vals, [e \in Range(s.vals) |-> ApplyPred(p, e)]),
        SelectIterator(
            TakeWhileIterator(multiIterator,
                [pair \in Range(multiIterator) |-> ApplyPred(p, pair[2])]),
            [pair \in Range(multiIterator) |-> pair[1]]))

\* the <<index, value>> pairs E.from(index).zip(values, ..) builds
Series_zipIndexAndValues(s) ==
    LinqZip(s.idx, toValues(s),
            [d \in Range(ZipPairs(s.idx, toValues(s))) |-> <<d[1], d[2]>>])

\* executeLazyWhere of Series.prototype.where
Series_executeLazyWhere(s, p) ==
    LinqWhere(Series_zipIndexAndValues(s),
              [data \in Range(Series_zipIndexAndValues(s)) |-> ApplyPred(p, data[2])])

Series_where(s, p) ==
    LET cachedFilteredIndexAndValues == Series_executeLazyWhere(s, p)
    IN Series(
        LinqSelect(cachedFilteredIndexAndValues,
                   [data \in Range(cachedFilteredIndexAndValues) |-> data[2]]),
        LinqSelect(cachedFilteredIndexAndValues,
                   [data \in Range(cachedFilteredIndexAndValues) |-> data[1]]))

Series_select(s, f) ==
    Series(SelectIterator(s.vals, [e \in Range(s.vals) |-> ApplySelector(f, e)]),
           s.idx)

\* lazyEvaluate of Series.prototype.selectMany: newIndexAndNewValues
Series_newIndexAndNewValues(s, f) ==
    LinqZip(s.idx, toValues(s),
            [d \in Range(ZipPairs(s.idx, toValues(s))) |->
                <<d[1], ApplyManySelector(f, d[2])>>])

Series_selectMany(s, f) ==
    LET newIndexAndNewValues == Series_newIndexAndNewValues(s, f)
    IN Series(
        LinqSelectMany(newIndexAndNewValues,
                       [data \in Range(newIndexAndNewValues) |-> data[2]]),
        LinqSelectMany(newIndexAndNewValues,
                       [data \in Range(newIndexAndNewValues) |->
                           LinqSelect(LinqRange0(Len(data[2])),
                                      [x \in 0..Len(data[2]) |-> data[1]])]))

\* slice as a filter: every row whose label is in the window, wherever it is
Series_slice_filtered(s, start, end) ==
    LET multiIterator == MultiIterator2(s.idx, s.vals)
        inWindow == WhereIterator(multiIterator,
                        [pair \in Range(multiIterator) |-> ~(pair[1] < start) /\ pair[1] < end])
    IN Series(SelectIterator(inWindow, [pair \in Range(multiIterator) |-> pair[2]]),
              SelectIterator(inWindow, [pair \in Range(multiIterator) |-> pair[1]]))

\* Series.prototype.slice with a start and an end index and no predicate
Series_slice(s, start, end) ==
    LET multiIterator == MultiIterator2(s.idx, s.vals)
    IN Series(
        SelectIterator(
            TakeWhileIterator(
                SkipWhileIterator(multiIterator,
                    [pair \in Range(multiIterator) |-> pair[1] < start]),
                [pair \in Range(multiIterator) |-> pair[1] < end]),
            [pair \in Range(multiIterator) |-> pair[2]]),
        IndexSlice(s.idx, start, end))

Series_reverse(s) == Series(LinqReverse(toValues(s)), IndexReverse(s.idx))

Series_bake_generatedIndex(s) == SeriesFromArray(toValues(s), NoIndex)

Series_bake(s) == Series(toValues(s), IndexBake(s.idx))

-----------------------------------------------------------------------------
(* The order-by engine of Series.  A batch is a sequence of commands       *)
(* [sortSelector, sortMethod].                                             *)

KeySelectors == {"tens", "units"}
ApplyKeySelector(k, e) == IF k = "tens" THEN e.v \div 10 ELSE e.v % 10

SortMethods == {"orderBy", "orderByDescending", "thenBy", "thenByDescending"}
IsDescending(m) == m \in {"orderByDescending", "thenByDescending"}

\* the aggregate over the batch: E.from(rows)[m1](k1)[m2](k2)...toArray();
\* keyOf[<<b, row>>] is what the b-th command's selector returns for row
LinqOrderByChain(rows, batch, keyOf) ==
    LET ctx == [keys |-> [b \in 1..Len(batch) |->
                            [i \in 1..Len(rows) |-> keyOf[<<b, rows[i]>>]]],
                desc |-> [b \in 1..Len(batch) |-> IsDescending(batch[b].sortMethod)]]
        perm == SortIndexes(ctx, Len(rows))
    IN [k \in 1..Len(rows) |-> rows[perm[k]]]

Series_executeLazySort_lastKeyPrimary(self, batch) ==
    LET valuesWithIndex == Series_zipIndexAndValues(self)
    IN LinqOrderByChain(
           valuesWithIndex,
           LinqReverse(batch),
           [x \in (1..Len(batch)) \X Range(valuesWithIndex) |->
               ApplyKeySelector(LinqReverse(batch)[x[1]].sortSelector, x[2][2])])

\* executeLazySort of the Series order-by engine: the sorted <<index, value>> rows
Series_executeLazySort(self, batch) ==
    LET valuesWithIndex == Series_zipIndexAndValues(self)
    IN LinqOrderByChain(
           valuesWithIndex,
           batch,
           [x \in (1..Len(batch)) \X Range(valuesWithIndex) |->
               ApplyKeySelector(batch[x[1]].sortSelector, x[2][2])])

Series_executeOrderBy_indexNotSorted(self, batch) ==
    LET sortedRows == Series_executeLazySort(self, batch)
    IN Series(LinqSelect(sortedRows, [row \in Range(sortedRows) |-> row[2]]),
              self.idx)

\* executeOrderBy: the Series whose values and index both read the sorted rows
Series_executeOrderBy(self, batch) ==
    LET sortedRows == Series_executeLazySort(self, batch)
    IN Series(LinqSelect(sortedRows, [row \in Range(sortedRows) |-> row[2]]),
              LinqSelect(sortedRows, [row \in Range(sortedRows) |-> row[1]]))

\* the batch orderBy(self, sortMethod, sortSelector) starts
Series_orderBy_batch(sortMethod, sortSelector) ==
    <<[sortSelector |-> sortSelector, sortMethod |-> sortMethod]>>

\* the batch the function made by orderThenBy builds: batch.concat([cmd])
Series_orderThenBy_batch(batch, nextSortMethod, sortSelector) ==
    batch \o <<[sortSelector |-> sortSelector, sortMethod |-> nextSortMethod]>>

-----------------------------------------------------------------------------
(* DataFrame: [columnNames, it], it being what a traversal of the rows     *)
(* iterator yields: one [ix, cur] per row, ix = getCurrentIndex() and      *)
(* cur = getCurrent().  A row is [v, o], v the sequence of cells and o the *)
(* position the row had in the source array (a history field).            *)

\* ApplyIndexIterator(rows, index.getIterator()): rows' values under the
\* index's labels
ApplyIndexIterator(rows, labels) ==
    [i \in 1..(IF Len(rows) < Len(labels) THEN Len(rows) ELSE Len(labels)) |->
        [ix |-> labels[i], cur |-> rows[i].cur]]

\* the rows of new ArrayIterator(config.rows)
ArrayRows(a) ==
    [i \in 1..Len(a) |->
        [ix |-> getCurrentIndex(a, NoIndex, i - 1)[1], cur |-> getCurrent(a, i - 1)[1]]]

\* new DataFrame({ columnNames, rows, index })
DataFrame(columnNames, rows, ix) ==
    [kind |-> "dataframe",
     columnNames |-> columnNames,
     it |-> IF ix.given THEN ApplyIndexIterator(rows, ix.a) ELSE rows]

DataFrame_getIndex(df) == [i \in 1..Len(df.it) |-> df.it[i].ix]

DataFrame_toValues(df) == [i \in 1..Len(df.it) |-> df.it[i].cur]

\* mapRowByColumns: the row as an object keyed by column name (with a
\* repeated name the last column of that name wins)
mapRowByColumns(df, row) ==
    [c \in {df.columnNames[i] : i \in 1..Len(df.columnNames)} |->
        LET last == CHOOSE i \in 1..Len(df.columnNames) :
                        /\ df.columnNames[i] = c
                        /\ \A j \in (i + 1)..Len(df.columnNames) : df.columnNames[j] # c
        IN row.v[last]]

RowPreds == {"nGt1", "sOdd"}
ApplyRowPred(p, obj) == IF p = "nGt1" THEN obj["n"] > 1 ELSE obj["s"] % 2 = 1

RECURSIVE DataFrame_whereIndexLoop(_, _, _)
\* the index iterator DataFrame.prototype.where builds: for (;;) move the
\* multi iterator, return at the first pair whose row passes the predicate
DataFrame_whereIndexLoop(df, pairs, p) ==
    IF pairs = <<>>
    THEN <<>>
    ELSE IF ApplyRowPred(p, mapRowByColumns(df, Head(pairs)[2]))
         THEN <<Head(pairs)[1]>> \o DataFrame_whereIndexLoop(df, Tail(pairs), p)
         ELSE DataFrame_whereIndexLoop(df, Tail(pairs), p)

\* the predicate where hands to the WhereIterator over the rows
DataFrame_wherePredicate(df, p) ==
    [item \in Range(df.it) |-> ApplyRowPred(p, mapRowByColumns(df, item.cur))]

DataFrame_where_renumbered(df, p) ==
    DataFrame(
        df.columnNames,
        ArrayRows(DataFrame_toValues(
            [df EXCEPT !.it = WhereIterator(df.it, DataFrame_wherePredicate(df, p))])),
        NoIndex)

DataFrame_where(df, p) ==
    DataFrame(
        df.columnNames,
        WhereIterator(df.it, DataFrame_wherePredicate(df, p)),
        [given |-> TRUE,
         a |-> DataFrame_whereIndexLoop(
                   df, MultiIterator2(DataFrame_getIndex(df), DataFrame_toValues(df)), p)])

-----------------------------------------------------------------------------
(* The order-by engine of DataFrame.  A selector argument is a record      *)
(* [type, f, s, n]: the JavaScript type of the argument and, by type, the  *)
(* function's name, the string or the number.  A command's sortSelector   *)
(* is [column, name]: the function processColumnSelector generated for    *)
(* column name (column = TRUE) or the caller's function name.             *)

Arg(type, f, s, n) == [type |-> type, f |-> f, s |-> s, n |-> n]

\* whether processColumnSelector returns (rather than throws)
processColumnSelector_accepts(self, arg) ==
    IF arg.type = "function"
    THEN TRUE
    ELSE IF arg.type = "number"
         THEN arg.n >= 0 /\ arg.n < Len(self.columnNames)
         ELSE arg.type = "string"

\* the selector function processColumnSelector returns
processColumnSelector(self, arg) ==
    IF arg.type = "function"
    THEN [column |-> FALSE, name |-> arg.f]
    ELSE IF arg.type = "number"
         THEN [column |-> TRUE, name |-> self.columnNames[arg.n + 1]]
         ELSE [column |-> TRUE, name |-> arg.s]

RowKeySelectors == {"byN", "byS"}

\* sortSelector(columnMappedRow).  row[columnName] of a name the row does
\* not have is undefined, and undefined keys compare equal to each other:
\* they are given the one key -1.
ApplyRowKeySelector(sel, obj) ==
    IF sel.column
    THEN IF sel.name \in DOMAIN obj THEN obj[sel.name] ELSE -1
    ELSE IF sel.name = "byN" THEN obj["n"] ELSE obj["s"]

\* E.from(row).skip(1).toArray()
LinqSkip1(row) == [v |-> Tail(row.v), o |-> row.o]

\* valuesWithIndex: each row as [index].concat(values)
DataFrame_valuesWithIndex(self) ==
    LinqZip(DataFrame_getIndex(self), DataFrame_toValues(self),
            [d \in Range(ZipPairs(DataFrame_getIndex(self), DataFrame_toValues(self))) |->
                [v |-> <<d[1]>> \o d[2].v, o |-> d[2].o]])

\* executeLazySort of the DataFrame order-by engine: the sorted rows, each
\* with its index label in front
DataFrame_executeLazySort(self, batch) ==
    LET valuesWithIndex == DataFrame_valuesWithIndex(self)
    IN LinqOrderByChain(
           valuesWithIndex,
           batch,
           [x \in (1..Len(batch)) \X Range(valuesWithIndex) |->
               ApplyRowKeySelector(batch[x[1]].sortSelector,
                                   mapRowByColumns(self, LinqSkip1(x[2])))])

\* executeOrderBy: the DataFrame whose rows and index both read the sorted rows
DataFrame_executeOrderBy(self, batch) ==
    LET sortedRows == DataFrame_executeLazySort(self, batch)
    IN DataFrame(
           self.columnNames,
           ArrayRows(LinqSelect(sortedRows, [row \in Range(sortedRows) |-> LinqSkip1(row)])),
           [given |-> TRUE,
            a |-> LinqSelect(sortedRows, [row \in Range(sortedRows) |-> row.v[1]])])

-----------------------------------------------------------------------------
(* A source object and a chain of operator calls, each on the result of    *)
(* the one before.                                                         *)

\* the source array with each value's position recorded beside it
Tagged(a) == [i \in 1..Len(a) |-> [v |-> a[i], o |-> i]]

Cells == {<<n, s>> : n \in Values, s \in Values}
ColumnNames == <<"n", "s">>

\* the counts handed to skip and take
Counts == {0, 1, 2}

NotSorted == [on |-> FALSE, self |-> [kind |-> "none"], batch |-> <<>>]

Op(op, p, n, m) == [op |-> op, p |-> p, n |-> n, m |-> m]

NoCall == [op |-> "none", p |-> "", n |-> 0, m |-> 0, self |-> [kind |-> "none"]]

\* the operators whose calls are recorded in the history variable call
Recorded == {"where"}

IndexOptions(len) ==
    {NoIndex} \cup {[given |-> TRUE, a |-> l] : l \in [1..len -> Labels]}

OpInit ==
    /\ IterIdle /\ MultiIdle /\ PluginIdle /\ CursorIdle /\ LazyIdle
    /\ \/ \E a \in SeqsUpTo(Values, MaxSrcLen) : \E ix \in IndexOptions(Len(a)) :
            cur = SeriesFromArray(Tagged(a), ix)
       \/ \E a \in SeqsUpTo(Cells, MaxFrameLen) : \E ix \in IndexOptions(Len(a)) :
            cur = DataFrame(ColumnNames, ArrayRows(Tagged(a)), ix)
    /\ call = NoCall
    /\ depth = 0
    /\ sorted = NotSorted
    /\ srcIdx = IF cur.kind = "series" THEN cur.idx ELSE DataFrame_getIndex(cur)

\* one operator call on cur, returning new
Step(new, op, srt) ==
    /\ depth < MaxChain
    /\ cur' = new
    /\ call' = IF op.op \in Recorded
               THEN [op |-> op.op, p |-> op.p, n |-> op.n, m |-> op.m, self |-> cur]
               ELSE NoCall
    /\ depth' = depth + 1
    /\ sorted' = srt
    /\ UNCHANGED srcIdx

SSkip ==
    /\ cur.kind = "series"
    /\ \E n \in Counts : Step(Series_skip(cur, n), Op("skip", "", n, 0), NotSorted)

STake ==
    /\ cur.kind = "series"
    /\ \E n \in Counts : Step(Series_take(cur, n), Op("take", "", n, 0), NotSorted)

SSkipWhile ==
    /\ cur.kind = "series"
    /\ \E p \in Preds : Step(Series_skipWhile(cur, p), Op("skipWhile", p, 0, 0), NotSorted)

STakeWhile ==
    /\ cur.kind = "series"
    /\ \E p \in Preds : Step(Series_takeWhile(cur, p), Op("takeWhile", p, 0, 0), NotSorted)

SWhere ==
    /\ cur.kind = "series"
    /\ \E p \in Preds : Step(Series_where(cur, p), Op("where", p, 0, 0), NotSorted)

SSelect ==
    /\ cur.kind = "series"
    /\ \E f \in Selectors : Step(Series_select(cur, f), Op("select", f, 0, 0), NotSorted)

SSelectMany ==
    /\ cur.kind = "series"
    /\ \E f \in ManySelectors :
          Step(Series_selectMany(cur, f), Op("selectMany", f, 0, 0), NotSorted)

SSlice ==
    /\ cur.kind = "series"
    /\ \E a \in SliceBounds : \E b \in SliceBounds :
          Step(Series_slice(cur, a, b), Op("slice", "", a, b), NotSorted)

SReverse ==
    /\ cur.kind = "series"
    /\ Step(Series_reverse(cur), Op("reverse", "", 0, 0), NotSorted)

SBake ==
    /\ cur.kind = "series"
    /\ Step(Series_bake(cur), Op("bake", "", 0, 0), NotSorted)

\* series.orderBy(k) / series.orderByDescending(k)
SOrderBy ==
    /\ cur.kind = "series"
    /\ \E k \in KeySelectors : \E m \in {"orderBy", "orderByDescending"} :
          LET batch == Series_orderBy_batch(m, k)
          IN Step(Series_executeOrderBy(cur, batch), Op(m, k, 0, 0),
                  [on |-> TRUE, self |-> cur, batch |-> batch])

\* sortedSeries.thenBy(k) / sortedSeries.thenByDescending(k)
SThenBy ==
    /\ cur.kind = "series"
    /\ sorted.on
    /\ \E k \in KeySelectors : \E m \in {"thenBy", "thenByDescending"} :
          LET batch == Series_orderThenBy_batch(sorted.batch, m, k)
          IN Step(Series_executeOrderBy(sorted.self, batch), Op(m, k, 0, 0),
                  [on |-> TRUE, self |-> sorted.self, batch |-> batch])

DFWhere ==
    /\ cur.kind = "dataframe"
    /\ \E p \in RowPreds : Step(DataFrame_where(cur, p), Op("where", p, 0, 0), NotSorted)

\* the selector arguments the sorted chains are built with
DataFrameSortArgs ==
    {Arg("string", "", "n", 0), Arg("number", "", "", 1), Arg("function", "byN", "", 0)}

\* dataFrame.orderBy(arg) / dataFrame.orderByDescending(arg)
DFOrderBy ==
    /\ cur.kind = "dataframe"
    /\ \E arg \in DataFrameSortArgs : \E m \in {"orderBy", "orderByDescending"} :
          /\ processColumnSelector_accepts(cur, arg)
          /\ LET batch == Series_orderBy_batch(m, processColumnSelector(cur, arg))
             IN Step(DataFrame_executeOrderBy(cur, batch), Op(m, "", 0, 0),
                     [on |-> TRUE, self |-> cur, batch |-> batch])

\* sortedDataFrame.thenBy(arg) / sortedDataFrame.thenByDescending(arg)
DFThenBy ==
    /\ cur.kind = "dataframe"
    /\ sorted.on
    /\ \E arg \in DataFrameSortArgs : \E m \in {"thenBy", "thenByDescending"} :
          /\ processColumnSelector_accepts(sorted.self, arg)
          /\ LET batch == Series_orderThenBy_batch(
                              sorted.batch, m, processColumnSelector(sorted.self, arg))
             IN Step(DataFrame_executeOrderBy(sorted.self, batch), Op(m, "", 0, 0),
                     [on |-> TRUE, self |-> sorted.self, batch |-> batch])

Init == OpInit

Next ==
    /\ \/ SSkip \/ STake \/ SSkipWhile \/ STakeWhile \/ SWhere \/ SSelect
       \/ SSelectMany \/ SSlice \/ SReverse \/ SBake \/ SOrderBy \/ SThenBy
       \/ DFWhere
    /\ UNCHANGED <<itVars, muVars, lzVars, cuVars, plVars>>

Spec == Init /\ [][Next]_vars

\* C3: for every Series reached from an array-backed Series by a chain of
\* skip, take, skipWhile, takeWhile, where, select, selectMany, slice,
\* orderBy/thenBy, reverse and bake, the index and the values have the same
\* length and the i-th index label is the label the source paired with the
\* element that produced the i-th value.
C3_IndexAndValuesInLockstep ==
    cur.kind = "series" =>
        /\ Len(cur.idx) = Len(toValues(cur))
        /\ \A i \in 1..Len(cur.idx) : cur.idx[i] = srcIdx[toValues(cur)[i].o]

C3_Witness ==
    /\ cur.kind = "series"
    /\ depth = 2
    /\ cur.idx # srcIdx
    /\ Len(cur.idx) >= 3
    /\ \E i \in 1..Len(cur.idx) : cur.idx[i] = 8

-----------------------------------------------------------------------------
(* What a read of an object of either kind yields. *)

ValuesOf(x) == IF x.kind = "series" THEN toValues(x) ELSE DataFrame_toValues(x)
IndexOf(x) == IF x.kind = "series" THEN x.idx ELSE DataFrame_getIndex(x)

\* whether row i of x satisfies predicate p, as where hands rows to it
Satisfies(x, p, i) ==
    IF x.kind = "series"
    THEN ApplyPred(p, ValuesOf(x)[i])
    ELSE ApplyRowPred(p, mapRowByColumns(x, ValuesOf(x)[i]))

\* the i-th smallest member of a set of positions
Nth(S, i) == CHOOSE j \in S : Cardinality({k \in S : k <= j}) = i

\* C4: where(p) yields exactly the rows/values that satisfy p, in their
\* original relative order, and the result's index is the sequence of the
\* original index labels of the surviving rows (retained, not renumbered).
C4_WhereKeepsRowsAndLabels ==
    call.op = "where" =>
        LET self == call.self
            keep == {j \in 1..Len(ValuesOf(self)) : Satisfies(self, call.p, j)}
        IN /\ Len(ValuesOf(cur)) = Cardinality(keep)
           /\ Len(IndexOf(cur)) = Cardinality(keep)
           /\ \A i \in 1..Cardinality(keep) :
                 /\ ValuesOf(cur)[i] = ValuesOf(self)[Nth(keep, i)]
                 /\ IndexOf(cur)[i] = IndexOf(self)[Nth(keep, i)]

\* the scenario of rows [[1, s], [2, s']] filtered by row.n > 1: index [1]
C4_Witness ==
    /\ call.op = "where"
    /\ call.p = "nGt1"
    /\ cur.kind = "dataframe"
    /\ Len(ValuesOf(call.self)) = 2
    /\ IndexOf(call.self) = <<0, 1>>
    /\ IndexOf(cur) = <<1>>
    /\ ValuesOf(cur)[1].v[1] = 2

-----------------------------------------------------------------------------
(* Sorting: a source and the sorted objects orderBy / thenBy chains return. *)

\* Series values with two sort keys each: the tens and the units digit
SortValues == {11, 12, 21, 22}

SortInit ==
    /\ IterIdle /\ MultiIdle /\ PluginIdle /\ CursorIdle /\ LazyIdle
    /\ \/ \E a \in SeqsUpTo(SortValues, MaxSrcLen) :
            cur = SeriesFromArray(Tagged(a), NoIndex)
       \/ \E a \in SeqsUpTo(Cells, MaxFrameLen) :
            cur = DataFrame(ColumnNames, ArrayRows(Tagged(a)), NoIndex)
    /\ call = NoCall
    /\ depth = 0
    /\ sorted = NotSorted
    /\ srcIdx = IF cur.kind = "series" THEN cur.idx ELSE DataFrame_getIndex(cur)

SortNext ==
    /\ SOrderBy \/ SThenBy \/ DFOrderBy \/ DFThenBy
    /\ UNCHANGED <<itVars, muVars, lzVars, cuVars, plVars>>

SpecSort == SortInit /\ [][SortNext]_vars

\* key lv of the batch on a row of the sorted object's source
KeyOf(self, batch, lv, row) ==
    IF self.kind = "series"
    THEN ApplyKeySelector(batch[lv].sortSelector, row)
    ELSE ApplyRowKeySelector(batch[lv].sortSelector, mapRowByColumns(self, row))

\* the first key on which rows a and b differ (empty when equal on every key)
FirstDifference(self, batch, a, b) ==
    {lv \in 1..Len(batch) :
        /\ KeyOf(self, batch, lv, a) # KeyOf(self, batch, lv, b)
        /\ \A l \in 1..(lv - 1) : KeyOf(self, batch, l, a) = KeyOf(self, batch, l, b)}

\* where the row stands in the sorted object's source
PositionIn(self, row) ==
    CHOOSE i \in 1..Len(ValuesOf(self)) : ValuesOf(self)[i].o = row.o

\* row a is to come before row b under the composite key of the batch
ComesBefore(self, batch, a, b) ==
    IF FirstDifference(self, batch, a, b) = {}
    THEN PositionIn(self, a) < PositionIn(self, b)
    ELSE LET lv == CHOOSE l \in FirstDifference(self, batch, a, b) : TRUE
         IN IF IsDescending(batch[lv].sortMethod)
            THEN KeyOf(self, batch, lv, a) > KeyOf(self, batch, lv, b)
            ELSE KeyOf(self, batch, lv, a) < KeyOf(self, batch, lv, b)

\* C5: orderBy(k1).thenBy(k2), in either direction on each key, yields the
\* rows sorted by the composite key (k1, k2): k1 is primary, k2 only breaks
\* ties among rows equal on k1, and rows equal on every key of the batch
\* keep their original relative order.
C5_SortedByCompositeKeyStable ==
    sorted.on =>
        \A i \in 1..Len(ValuesOf(cur)) : \A j \in (i + 1)..Len(ValuesOf(cur)) :
            ComesBefore(sorted.self, sorted.batch, ValuesOf(cur)[i], ValuesOf(cur)[j])

\* orderBy(tens).thenByDescending(units) on 21, 11, 12 yields 12, 11, 21:
\* the units only order the two rows whose tens are equal
C5_Witness ==
    /\ sorted.on
    /\ cur.kind = "series"
    /\ Len(sorted.batch) = 2
    /\ sorted.batch[1] = [sortSelector |-> "tens", sortMethod |-> "orderBy"]
    /\ sorted.batch[2] = [sortSelector |-> "units", sortMethod |-> "thenByDescending"]
    /\ Len(ValuesOf(cur)) = 3
    /\ ValuesOf(cur) = <<[v |-> 12, o |-> 3], [v |-> 11, o |-> 2], [v |-> 21, o |-> 1]>>

\* C6: the (index label, row) pairs read from a sorted Series / DataFrame
\* are a permutation of the source's pairs: each row keeps the label it had
\* in the source.
C6_SortedPairsArePermutation ==
    sorted.on =>
        LET n == Len(ValuesOf(sorted.self))
        IN /\ Len(ValuesOf(cur)) = n
           /\ Len(IndexOf(cur)) = n
           /\ {PositionIn(sorted.self, ValuesOf(cur)[i]) : i \in 1..n} = 1..n
           /\ \A i \in 1..n :
                 LET at == PositionIn(sorted.self, ValuesOf(cur)[i])
                 IN /\ ValuesOf(cur)[i] = ValuesOf(sorted.self)[at]
                    /\ IndexOf(cur)[i] = IndexOf(sorted.self)[at]

\* orderByDescending("n") on rows [1, s], [2, s'] labelled 0, 1: the rows
\* reversed, with index [1, 0]
C6_Witness ==
    /\ sorted.on
    /\ cur.kind = "dataframe"
    /\ sorted.batch = <<[sortSelector |-> [column |-> TRUE, name |-> "n"],
                         sortMethod |-> "orderByDescending"]>>
    /\ Len(ValuesOf(sorted.self)) = 2
    /\ ValuesOf(sorted.self)[1].v[1] = 1
    /\ ValuesOf(sorted.self)[2].v[1] = 2
    /\ IndexOf(sorted.self) = <<0, 1>>
    /\ IndexOf(cur) = <<1, 0>>
    /\ ValuesOf(cur)[1].v[1] = 2

-----------------------------------------------------------------------------
(* Sorted objects.  Each orderBy / thenBy call that returns makes one:     *)
(* executeOrderBy's closure over the batch array (a reference into heap)   *)
(* and its own cachedSorted variable.  A sorted object is                  *)
(*   [batch, cachedSorted, sorts, sourceReads, selectorCalls, reads,       *)
(*    from, cmd]                                                           *)
(* batch is the reference of its batch array, cachedSorted is              *)
(* [isNull, rows]; the rest is history: how often its sort ran, how often  *)
(* the sort read the source (its index and its values), how often a sort   *)
(* selector was invoked, how often the object was read, and the call that  *)
(* made it: the sorted object thenBy was called on (0 for orderBy on the   *)
(* source) and the command the call added.                                 *)

\* assert.isFunction(sortSelector) of orderBy and of the thenBy functions
Series_orderBy_accepts_unchecked(arg) == TRUE

Series_orderBy_accepts(arg) == arg.type = "function"

\* whether the call's selector argument passes the checks made at the call
Accepts(self, arg) ==
    IF self.kind = "series"
    THEN Series_orderBy_accepts(arg)
    ELSE processColumnSelector_accepts(self, arg)

\* the sortSelector the call puts in its command
SortSelectorOf(self, arg) ==
    IF self.kind = "series" THEN arg.f ELSE processColumnSelector(self, arg)

\* the arguments orderBy / thenBy are called with
SeriesArgs ==
    {Arg("function", k, "", 0) : k \in KeySelectors}
        \cup {Arg("string", "", "n", 0), Arg("number", "", "", 0),
              Arg("undefined", "", "", 0)}

DataFrameArgs ==
    {Arg("string", "", "s", 0), Arg("string", "", "zz", 0), Arg("number", "", "", 0),
     Arg("number", "", "", 2), Arg("number", "", "", -1), Arg("undefined", "", "", 0)}

ArgsOf(self) == IF self.kind = "series" THEN SeriesArgs ELSE DataFrameArgs

\* if (cachedSorted): null is falsy, every array is truthy
Truthy_emptyIsFalsy(cachedSorted) ==
    ~cachedSorted.isNull /\ cachedSorted.rows # <<>>

Truthy(cachedSorted) == ~cachedSorted.isNull

\* a sorted object whose sort ran when it was made
NewSortedObject_sortedAtCall(ref, from, cmd) ==
    [batch |-> ref, cachedSorted |-> [isNull |-> TRUE, rows |-> <<>>],
     sorts |-> 1, sourceReads |-> 2, selectorCalls |-> 0, reads |-> 0,
     from |-> from, cmd |-> cmd]

\* var cachedSorted = null, in a new closure
NewSortedObject(ref, from, cmd) ==
    [batch |-> ref, cachedSorted |-> [isNull |-> TRUE, rows |-> <<>>],
     sorts |-> 0, sourceReads |-> 0, selectorCalls |-> 0, reads |-> 0,
     from |-> from, cmd |-> cmd]

\* batch.concat([cmd]): a new array; the array batch refers to is left alone
orderThenBy_extendedBatch_push(hp, batch, cmd) ==
    [heap |-> [hp EXCEPT ![batch] =
                  Series_orderThenBy_batch(hp[batch], cmd.sortMethod, cmd.sortSelector)],
     ref |-> batch]

orderThenBy_extendedBatch(hp, batch, cmd) ==
    [heap |-> Append(hp, Series_orderThenBy_batch(hp[batch], cmd.sortMethod,
                                                  cmd.sortSelector)),
     ref |-> Len(hp) + 1]

\* one call of a sorted object's executeLazySort: the object afterwards
executeLazySort(self, hp, o) ==
    IF Truthy(o.cachedSorted)
    THEN o
    ELSE [o EXCEPT
            !.cachedSorted =
                [isNull |-> FALSE,
                 rows |-> IF self.kind = "series"
                          THEN Series_executeLazySort(self, hp[o.batch])
                          ELSE DataFrame_executeLazySort(self, hp[o.batch])],
            !.sorts = @ + 1,
            !.sourceReads = @ + 2,
            !.selectorCalls = @ + Len(hp[o.batch]) * Len(ValuesOf(self))]

\* a traversal of the sorted object: a sorted Series calls executeLazySort
\* for what is read (its values or its index); a sorted DataFrame's iterable
\* calls both its rows and its index function
Traverse(self, hp, o) ==
    IF self.kind = "series"
    THEN executeLazySort(self, hp, o)
    ELSE executeLazySort(self, hp, executeLazySort(self, hp, o))

\* what toValues() / getIndex().toValues() yield from the sorted rows
ReadResult(self, op, rows) ==
    IF self.kind = "series"
    THEN LinqSelect(rows, [row \in Range(rows) |->
                              IF op = "toValues" THEN row[2] ELSE row[1]])
    ELSE IF op = "toValues"
         THEN LinqSelect(rows, [row \in Range(rows) |-> LinqSkip1(row)])
         ELSE LinqSelect(rows, [row \in Range(rows) |-> row.v[1]])

\* a DataFrame made from a non-empty array of row objects without
\* columnNames: its column names are a function not called yet, which
\* collects the keys of every row of the array
DataFrameFromObjects(columnNames, rows) ==
    [kind |-> "dataframe", columnNames |-> columnNames, it |-> rows, names |-> "function"]

\* Object.isFunction(self._columnNames)
HasLazyColumnNames(self) ==
    /\ self.kind = "dataframe"
    /\ "names" \in DOMAIN self
    /\ self.names = "function"

\* DataFrame.prototype.getColumnNames: the object afterwards (the names the
\* function returned are kept) and how many source rows the call read
DataFrame_getColumnNames(self) ==
    IF HasLazyColumnNames(self)
    THEN [self |-> [self EXCEPT !.names = "array"], rowsRead |-> Len(self.it)]
    ELSE [self |-> self, rowsRead |-> 0]

\* what an orderBy / thenBy call does to the source before it returns or
\* throws: on a DataFrame, processColumnSelector calls getColumnNames for a
\* number and executeOrderBy calls it for every selector that was accepted
SortCallOnSource(self, arg) ==
    IF self.kind = "dataframe" /\ (arg.type = "number" \/ Accepts(self, arg))
    THEN DataFrame_getColumnNames(self)
    ELSE [self |-> self, rowsRead |-> 0]

\* the record of a call; rowsRead is how many source rows the call read
Called(op, arg, threw, result) ==
    [op |-> op, arg |-> arg, threw |-> threw, objsBefore |-> Len(objs),
     heapBefore |-> heap, result |-> result,
     rowsRead |-> IF op \in SortMethods THEN SortCallOnSource(source, arg).rowsRead ELSE 0]

\* source.orderBy(arg) / source.orderByDescending(arg)
OrderByCall(maxObjs, args) ==
    /\ Len(objs) < maxObjs
    /\ \E m \in {"orderBy", "orderByDescending"} : \E arg \in args :
          /\ IF Accepts(source, arg)
             THEN LET batchOrder == Series_orderBy_batch(m, SortSelectorOf(source, arg))
                  IN /\ heap' = Append(heap, batchOrder)
                     /\ objs' = Append(objs, NewSortedObject(Len(heap) + 1, 0, batchOrder[1]))
                     /\ lastCall' = Called(m, arg, FALSE, <<>>)
             ELSE /\ lastCall' = Called(m, arg, TRUE, <<>>)
                  /\ UNCHANGED <<heap, objs>>
          /\ source' = SortCallOnSource(source, arg).self

\* objs[r].thenBy(arg) / objs[r].thenByDescending(arg)
ThenByCall(maxObjs, args) ==
    /\ Len(objs) < maxObjs
    /\ \E r \in 1..Len(objs) : \E m \in {"thenBy", "thenByDescending"} : \E arg \in args :
          /\ IF Accepts(source, arg)
             THEN LET cmd == [sortSelector |-> SortSelectorOf(source, arg), sortMethod |-> m]
                      extended == orderThenBy_extendedBatch(heap, objs[r].batch, cmd)
                  IN /\ heap' = extended.heap
                     /\ objs' = Append(objs, NewSortedObject(extended.ref, r, cmd))
                     /\ lastCall' = Called(m, arg, FALSE, <<>>)
             ELSE /\ lastCall' = Called(m, arg, TRUE, <<>>)
                  /\ UNCHANGED <<heap, objs>>
          /\ source' = SortCallOnSource(source, arg).self

RECURSIVE TotalReads(_)
TotalReads(os) == IF os = <<>> THEN 0 ELSE Head(os).reads + TotalReads(Tail(os))

\* objs[i].toValues() (op = "toValues") / objs[i].getIndex().toValues()
Read(op) ==
    /\ TotalReads(objs) < MaxReads
    /\ \E i \in 1..Len(objs) :
          LET after == Traverse(source, heap, objs[i])
          IN /\ objs' = [objs EXCEPT ![i] = [after EXCEPT !.reads = @ + 1]]
             /\ lastCall' = Called(op, [type |-> "none"], FALSE,
                                   ReadResult(source, op, after.cachedSorted.rows))
    /\ UNCHANGED <<source, heap>>

ReadValues == Read("toValues")

ReadIndex == Read("getIndex")

\* the sources the calls are made on
CallsInit ==
    /\ IterIdle /\ MultiIdle /\ PluginIdle /\ CursorIdle /\ OpIdle
    /\ source \in {SeriesFromArray(Tagged(<<12, 21>>), NoIndex),
                   DataFrame(ColumnNames, ArrayRows(Tagged(<<(<<1, 2>>), (<<2, 1>>)>>)),
                             NoIndex),
                   DataFrameFromObjects(ColumnNames,
                                        ArrayRows(Tagged(<<(<<1, 2>>), (<<2, 1>>)>>)))}
    /\ heap = <<>>
    /\ objs = <<>>
    /\ lastCall = NoLastCall

CallsNext ==
    /\ OrderByCall(MaxObjs, ArgsOf(source)) \/ ThenByCall(MaxObjs, ArgsOf(source))
    /\ UNCHANGED <<itVars, muVars, opVars, cuVars, plVars>>

SpecCalls == CallsInit /\ [][CallsNext]_vars

\* the arguments the sorted objects that are read are made with
LazyArgsOf(self) ==
    IF self.kind = "series"
    THEN {Arg("function", k, "", 0) : k \in KeySelectors}
    ELSE {Arg("string", "", "s", 0), Arg("number", "", "", 0)}

\* the sources whose sorted objects are read: of every length from none
\* to MaxLazyLen rows, a Series 21, 12, 21, ... or a DataFrame of the rows
\* [2, 1], [1, 2], [2, 1], ...
LazyInit ==
    /\ IterIdle /\ MultiIdle /\ PluginIdle /\ CursorIdle /\ OpIdle
    /\ \E len \in 0..MaxLazyLen :
          \/ source = SeriesFromArray(
                          Tagged([i \in 1..len |-> IF i % 2 = 1 THEN 21 ELSE 12]), NoIndex)
          \/ source = DataFrame(
                          ColumnNames,
                          ArrayRows(Tagged([i \in 1..len |->
                                       IF i % 2 = 1 THEN <<2, 1>> ELSE <<1, 2>>])),
                          NoIndex)
          \/ /\ len > 0
             /\ source = DataFrameFromObjects(
                             ColumnNames,
                             ArrayRows(Tagged([i \in 1..len |->
                                          IF i % 2 = 1 THEN <<2, 1>> ELSE <<1, 2>>])))
    /\ heap = <<>>
    /\ objs = <<>>
    /\ lastCall = NoLastCall

LazyNext ==
    /\ \/ OrderByCall(MaxReadObjs, LazyArgsOf(source))
       \/ ThenByCall(MaxReadObjs, LazyArgsOf(source))
       \/ ReadValues
       \/ ReadIndex
    /\ UNCHANGED <<itVars, muVars, opVars, cuVars, plVars>>

SpecLazy == LazyInit /\ [][LazyNext]_vars

\* C7: for each sorted object, the sort is executed and its cache written
\* at most once, whatever the reads of its values and of its index and also
\* when the source is empty: the first read sorts, every later read reuses
\* the cached rows without reading the source or invoking a sort selector
\* again.
C7_SortRunsAtMostOnce ==
    \A i \in 1..Len(objs) :
        /\ objs[i].sorts = (IF objs[i].reads = 0 THEN 0 ELSE 1)
        /\ objs[i].cachedSorted.isNull = (objs[i].reads = 0)
        /\ objs[i].sourceReads = 2 * objs[i].sorts
        /\ objs[i].selectorCalls =
              objs[i].sorts * Len(heap[objs[i].batch]) * Len(ValuesOf(source))

\* a sorted object of an empty source, read twice and sorted once
C7_Witness ==
    /\ ValuesOf(source) = <<>>
    /\ \E i \in 1..Len(objs) : objs[i].reads >= 2 /\ objs[i].sorts = 1

\* the batch the calls that led to sorted object i have built
RECURSIVE BuiltBatch(_)
BuiltBatch(i) ==
    IF objs[i].from = 0
    THEN <<objs[i].cmd>>
    ELSE BuiltBatch(objs[i].from) \o <<objs[i].cmd>>

\* C8: thenBy / thenByDescending returns a new sorted object and leaves the
\* one it was called on unchanged: no call changes the batch of a sorted
\* object that exists, so every sorted object's batch holds the keys of the
\* calls that led to it and no others.
C8_ThenByLeavesOriginalUnchanged ==
    /\ \A i \in 1..Len(objs) : heap[objs[i].batch] = BuiltBatch(i)
    /\ \A i \in 1..lastCall.objsBefore :
          i <= Len(objs) =>
             heap[objs[i].batch] = lastCall.heapBefore[objs[i].batch]

\* two thenBy calls with different keys on the same sorted object
C8_Witness ==
    /\ Len(objs) = 3
    /\ objs[2].from = 1
    /\ objs[3].from = 1
    /\ objs[2].cmd.sortSelector # objs[3].cmd.sortSelector
    /\ Len(heap[objs[1].batch]) = 1
    /\ Len(heap[objs[2].batch]) = 2
    /\ Len(heap[objs[3].batch]) = 2

\* the selector is not a function and, on a DataFrame, neither a string (a
\* column name) nor a number that is the index of one of the columns
InvalidSelector(self, arg) ==
    /\ arg.type # "function"
    /\ self.kind = "dataframe" =>
          /\ arg.type # "string"
          /\ ~(arg.type = "number" /\ arg.n \in 0..(Len(self.columnNames) - 1))

\* C9: orderBy, orderByDescending, thenBy and thenByDescending called with a
\* selector that is not a function (and, on a DataFrame, not a column name
\* or valid column index) fail at the call itself: no sorted object is
\* returned and no batch is made, so no sort is deferred.
C9_InvalidSelectorFailsAtCall ==
    (/\ lastCall.op \in {"orderBy", "orderByDescending", "thenBy", "thenByDescending"}
     /\ InvalidSelector(source, lastCall.arg))
        => /\ lastCall.threw
           /\ Len(objs) = lastCall.objsBefore
           /\ heap = lastCall.heapBefore

\* thenByDescending(2) on a sorted DataFrame of two columns
C9_Witness ==
    /\ source.kind = "dataframe"
    /\ lastCall.op = "thenByDescending"
    /\ lastCall.arg.type = "number"
    /\ lastCall.arg.n = 2
    /\ lastCall.threw
    /\ Len(objs) = 1

-----------------------------------------------------------------------------
(* Single calls on a Series or DataFrame, each recorded with its receiver: *)
(* call is [op, arg, self, before], before being the operator that         *)
(* returned the receiver ("none" for a source).                            *)

\* getColumnIndex with position 0 returned for a name no column has
getColumnIndex_missingIsZero(df, columnName) ==
    IF \E i \in 1..Len(df.columnNames) : df.columnNames[i] = columnName
    THEN (CHOOSE i \in 1..Len(df.columnNames) :
             /\ df.columnNames[i] = columnName
             /\ \A j \in 1..(i - 1) : df.columnNames[j] # columnName) - 1
    ELSE 0

\* DataFrame.prototype.getColumnIndex: the position of the first column of
\* that name, -1 when there is none
getColumnIndex(df, columnName) ==
    IF \E i \in 1..Len(df.columnNames) : df.columnNames[i] = columnName
    THEN (CHOOSE i \in 1..Len(df.columnNames) :
             /\ df.columnNames[i] = columnName
             /\ \A j \in 1..(i - 1) : df.columnNames[j] # columnName) - 1
    ELSE -1

\* parseColumnNameOrIndex: [threw, columnIndex]
parseColumnNameOrIndex(df, arg, failForNonExistantColumn) ==
    IF arg.type = "string"
    THEN [threw |-> failForNonExistantColumn /\ getColumnIndex(df, arg.s) < 0,
          columnIndex |-> getColumnIndex(df, arg.s)]
    ELSE [threw |-> arg.type # "number", columnIndex |-> arg.n]

\* what a call returns when it throws
Thrown(message) == [kind |-> "error", message |-> message]

\* what a call returns that returns a value or a row, not a Series / DataFrame
Returned(v) == [kind |-> "value", v |-> v]

\* the Series getSeries returns for column columnIndex
DataFrame_getSeries_index_generated(df, columnIndex) ==
    SeriesFromArray(
        SelectIterator(DataFrame_toValues(df),
                       [row \in Range(DataFrame_toValues(df)) |->
                           [v |-> row.v[columnIndex + 1], o |-> row.o]]),
        NoIndex)

DataFrame_getSeries_column(df, columnIndex) ==
    Series(SelectIterator(DataFrame_toValues(df),
                          [row \in Range(DataFrame_toValues(df)) |->
                              [v |-> row.v[columnIndex + 1], o |-> row.o]]),
           DataFrame_getIndex(df))

\* DataFrame.prototype.getSeries
DataFrame_getSeries(df, arg) ==
    IF parseColumnNameOrIndex(df, arg, TRUE).threw
    THEN Thrown("Failed to find column")
    ELSE DataFrame_getSeries_column(df, parseColumnNameOrIndex(df, arg, TRUE).columnIndex)

\* a call of DataFrame.prototype.getColumnIndex: assert.isString, then the
\* search
DataFrame_getColumnIndex(df, arg) ==
    IF arg.type # "string"
    THEN Thrown("Expected 'columnName' parameter to getColumnIndex to be a non-empty string.")
    ELSE Returned(getColumnIndex(df, arg.s))

\* DataFrame.prototype.expectSeries
DataFrame_expectSeries(df, arg) ==
    IF parseColumnNameOrIndex(df, arg, TRUE).threw
    THEN Thrown("Failed to find column")
    ELSE df

\* DataFrame.prototype.slice with a start and an end index and no predicate;
\* the index the row iterator gives is replaced by the sliced index
DataFrame_slice(df, start, end) ==
    LET multiIterator == MultiIterator2(DataFrame_getIndex(df), DataFrame_toValues(df))
    IN DataFrame(
        df.columnNames,
        SelectIterator(
            TakeWhileIterator(
                SkipWhileIterator(multiIterator,
                    [pair \in Range(multiIterator) |-> pair[1] < start]),
                [pair \in Range(multiIterator) |-> pair[1] < end]),
            [pair \in Range(multiIterator) |-> [ix |-> pair[1], cur |-> pair[2]]]),
        [given |-> TRUE, a |-> IndexSlice(DataFrame_getIndex(df), start, end)])

\* DataFrame.prototype.takeWhile
DataFrame_takeWhile(df, p) ==
    LET multiIterator == MultiIterator2(DataFrame_getIndex(df), DataFrame_toValues(df))
    IN DataFrame(
        df.columnNames,
        TakeWhileIterator(df.it, DataFrame_wherePredicate(df, p)),
        [given |-> TRUE,
         a |-> SelectIterator(
                   TakeWhileIterator(multiIterator,
                       [pair \in Range(multiIterator) |->
                           ApplyRowPred(p, mapRowByColumns(df, pair[2]))]),
                   [pair \in Range(multiIterator) |-> pair[1]])])

\* SelectManyIterator: the elements F gives for each upstream element, one
\* upstream element after the other
SelectManyIterator(s, F) == Flatten([i \in 1..Len(s) |-> F[s[i]]])

\* The selectors handed to DataFrame.selectMany:
\*   twice      function (row) { return [row, row]; }
\*   dropNOnes  function (row) { return row.n === 1 ? [] : [row]; }
\* n is what row.n evaluates to for the argument the selector is called
\* with: the cell of column n for a row object, undefined for a row array.
RowManySelectors == {"twice", "dropNOnes"}
ApplyRowManySelector(f, n, row) ==
    IF f = "twice"
    THEN <<row, row>>
    ELSE IF n = Def(1) THEN <<>> ELSE <<row>>

\* DataFrame.prototype.selectMany: the rows function calls the selector with
\* mapRowByColumns(self, row), the index function calls it with pair[1], the
\* row array.  No columnNames are given: they are the keys of the first
\* row generated.
DataFrame_selectMany(df, f) ==
    LET multiIterator == MultiIterator2(DataFrame_getIndex(df), DataFrame_toValues(df))
        rows == SelectManyIterator(
                    DataFrame_toValues(df),
                    [row \in Range(DataFrame_toValues(df)) |->
                        ApplyRowManySelector(f, Def(mapRowByColumns(df, row)["n"]), row)])
        labels == SelectIterator(
                      SelectManyIterator(
                          multiIterator,
                          [pair \in Range(multiIterator) |->
                              LinqSelect(ApplyRowManySelector(f, Undefined, pair[2]),
                                         [value \in Range(DataFrame_toValues(df)) |->
                                             <<pair[1], value>>])]),
                      [pair \in {<<p[1], v>> : p \in Range(multiIterator),
                                               v \in Range(DataFrame_toValues(df))} |->
                          pair[1]])
    IN DataFrame(IF rows = <<>> THEN <<>> ELSE df.columnNames,
                 ArrayRows(rows),
                 [given |-> TRUE, a |-> labels])

\* DataFrame.prototype.take
DataFrame_take(df, n) ==
    DataFrame(df.columnNames,
              TakeIterator(df.it, n),
              [given |-> TRUE, a |-> IndexTake(DataFrame_getIndex(df), n)])

\* DataFrame.prototype.bake
DataFrame_bake(df) ==
    DataFrame(df.columnNames,
              ArrayRows(DataFrame_toValues(df)),
              [given |-> TRUE, a |-> IndexBake(DataFrame_getIndex(df))])

\* the element standing for undefined among the values of a Series: it
\* comes from no source position
UndefinedElement == [v |-> 0, o |-> 0]

Series_first_unchecked(s) ==
    Returned(IF toValues(s) = <<>> THEN UndefinedElement ELSE toValues(s)[1])

\* Series.prototype.first
Series_first(s) ==
    LET r == moveNext(toValues(s), -1)
    IN IF ~r.ret
       THEN Thrown("No rows in series.")
       ELSE Returned(getCurrent(toValues(s), r.rowIndex)[1])

RECURSIVE LastLoop(_, _, _)
\* while (iterator.moveNext()) last = iterator.getCurrent()
LastLoop(a, ri, last) ==
    LET r == moveNext(a, ri)
    IN IF r.ret THEN LastLoop(a, r.rowIndex, getCurrent(a, r.rowIndex)[1]) ELSE last

\* Series.prototype.last
Series_last(s) ==
    LET r == moveNext(toValues(s), -1)
    IN IF ~r.ret
       THEN Thrown("No rows in series.")
       ELSE Returned(LastLoop(toValues(s), r.rowIndex,
                              getCurrent(toValues(s), r.rowIndex)[1]))

\* The functions handed to aggregate: those of sum, min and max and, for a
\* caller's own, function (prev, value) { return prev - value; }
Aggregators == {"sum", "min", "max", "minus"}
ApplyAggregator(fn, prev, value) ==
    CASE fn = "sum" -> prev + value
      [] fn = "min" -> IF prev < value THEN prev ELSE value
      [] fn = "max" -> IF prev > value THEN prev ELSE value
      [] OTHER -> prev - value

RECURSIVE LinqAggregate(_, _, _)
\* linq's aggregate(seed, func): func folded over the elements from the left
LinqAggregate(s, seed, fn) ==
    IF s = <<>>
    THEN seed
    ELSE LinqAggregate(Tail(s), ApplyAggregator(fn, seed, Head(s).v), fn)

\* an aggregate that starts from 0 when no seed is given
Series_aggregate_seedZero(s, fn) == Returned(LinqAggregate(toValues(s), 0, fn))

\* Series.prototype.aggregate(selector), no seed: self.first() is the seed
\* of the fold over self.skip(1), and throws when there is no value
Series_aggregate(s, fn) ==
    IF Series_first(s).kind = "error"
    THEN Series_first(s)
    ELSE Returned(LinqAggregate(toValues(Series_skip(s, 1)), Series_first(s).v.v, fn))

\* DataFrame.prototype.first
DataFrame_first(df) ==
    LET r == moveNext(DataFrame_toValues(df), -1)
    IN IF ~r.ret
       THEN Thrown("No rows in data-frame.")
       ELSE Returned(mapRowByColumns(df, getCurrent(DataFrame_toValues(df), r.rowIndex)[1]))

\* DataFrame.prototype.last
DataFrame_last(df) ==
    LET r == moveNext(DataFrame_toValues(df), -1)
    IN IF ~r.ret
       THEN Thrown("No rows in data-frame.")
       ELSE Returned(mapRowByColumns(
                         df,
                         LastLoop(DataFrame_toValues(df), r.rowIndex,
                                  getCurrent(DataFrame_toValues(df), r.rowIndex)[1])))

RECURSIVE ReindexFold(_, _, _)
\* the forEach over the <<index, value>> pairs that fills indexMap, a set of
\* <<label, value>> with one pair per label: [threw, indexMap], threw when
\* a pair's label is already there
ReindexFold(pairs, k, indexMap) ==
    IF k > Len(pairs)
    THEN [threw |-> FALSE, indexMap |-> indexMap]
    ELSE IF \E pr \in indexMap : pr[1] = pairs[k][1]
         THEN [threw |-> TRUE, indexMap |-> indexMap]
         ELSE ReindexFold(pairs, k + 1, indexMap \cup {pairs[k]})

\* indexMap[newIndexValue]
ReindexLookup(indexMap, label) ==
    IF \E pr \in indexMap : pr[1] = label
    THEN (CHOOSE pr \in indexMap : pr[1] = label)[2]
    ELSE UndefinedElement

\* reindex with an indexMap in which the last value of a label wins
Series_reindex_lastWins(s, newIndex) ==
    Series([k \in 1..Len(newIndex) |->
               IF \E i \in 1..Len(Series_zipIndexAndValues(s)) : s.idx[i] = newIndex[k]
               THEN toValues(s)[CHOOSE i \in 1..Len(Series_zipIndexAndValues(s)) :
                                   /\ s.idx[i] = newIndex[k]
                                   /\ \A j \in (i + 1)..Len(Series_zipIndexAndValues(s)) :
                                         s.idx[j] # newIndex[k]]
               ELSE UndefinedElement],
           newIndex)

\* Series.prototype.reindex, and what reading the values of the Series it
\* returns gives: the values function throws when the source index repeats
\* a label
Series_reindex(s, newIndex) ==
    LET filled == ReindexFold(Series_zipIndexAndValues(s), 1, {})
    IN IF filled.threw
       THEN Thrown("Duplicate index detected, failed to 'reindex'")
       ELSE Series(LinqSelect(newIndex,
                              [newIndexValue \in Range(newIndex) |->
                                  ReindexLookup(filled.indexMap, newIndexValue)]),
                   newIndex)

\* linq's distinct: the first occurrence of each element, in order
LinqDistinct(s) ==
    SelectSeq([i \in 1..Len(s) |-> [x |-> s[i], first |-> \A j \in 1..(i - 1) : s[j] # s[i]]],
              LAMBDA e : e.first)

\* DataFrame.prototype.remapColumns: each row's cells picked by column name,
\* undefined (0) for a name the DataFrame has no column of
DataFrame_remapColumns(df, columnNames) ==
    DataFrame(columnNames,
              ArrayRows([i \in 1..Len(DataFrame_toValues(df)) |->
                  [v |-> [c \in 1..Len(columnNames) |->
                            IF getColumnIndex(df, columnNames[c]) >= 0
                            THEN DataFrame_toValues(df)[i].v[getColumnIndex(df, columnNames[c]) + 1]
                            ELSE 0],
                   o |-> DataFrame_toValues(df)[i].o]]),
              [given |-> TRUE, a |-> DataFrame_getIndex(df)])

\* ConcatIterator: the iterators traversed one after the other, in array
\* order
ConcatIterator(iterators) == Flatten(iterators)

\* concatenateColumns in dataForge.concat
concatenateColumns(dataFrames) ==
    LET names == LinqDistinct(LinqSelectMany(dataFrames,
                     [dataFrame \in Range(dataFrames) |-> dataFrame.columnNames]))
    IN [i \in 1..Len(names) |-> names[i].x]

\* an option left out of a config object
NotGiven == [given |-> FALSE, a |-> <<>>]

\* The DataFrame constructor on a config [columnNames, rows, iterable], each
\* an optional member.  It reads columnNames and rows and never iterable:
\* with columnNames (any array is truthy) and no rows it throws.  Without
\* columnNames the column names of an array of arrays are "0", "1", ...
DataFrameFromConfig(config) ==
    IF config.columnNames.given
    THEN IF ~config.rows.given
         THEN Thrown("Expected to find a 'rows' member of 'config' parameter to DataFrame constructor.")
         ELSE DataFrame(config.columnNames.a, config.rows.a, NoIndex)
    ELSE IF config.rows.given /\ Len(config.rows.a) > 0
         THEN DataFrame([c \in 1..Len(config.rows.a[1].cur.v) |-> ToString(c - 1)],
                        config.rows.a, NoIndex)
         ELSE DataFrame(<<>>, <<>>, NoIndex)

\* dataForge.concat: the config it hands to the DataFrame constructor holds
\* the row producer under the name iterable
dataForge_concat(dataFrames) ==
    DataFrameFromConfig(
        [columnNames |-> [given |-> TRUE, a |-> concatenateColumns(dataFrames)],
         rows |-> NotGiven,
         iterable |->
            [given |-> TRUE,
             a |-> ConcatIterator(
                     [i \in 1..Len(dataFrames) |->
                        DataFrame_remapColumns(dataFrames[i],
                                               concatenateColumns(dataFrames)).it])]])

\* the DataFrames concatenated with the current one
ConcatOperands ==
    {DataFrame(ColumnNames, ArrayRows(Tagged(a)), NoIndex) : a \in SeqsUpTo(Cells, 1)}

\* the Series constructor on a config [values, index], values an optional
\* member: if (!config.values) throw
SeriesFromConfig(config) ==
    IF ~config.values.given
    THEN Thrown("Expected 'values' field to be set on 'config' parameter to Series constructor.")
    ELSE SeriesFromArray(config.values.a, config.index)

\* the operators of Series that take a count or a function
SeriesOperators ==
    {"skip", "take", "skipWhile", "takeWhile", "where", "select", "selectMany"}

\* operators that check nothing when called
Series_validates_unchecked(op, arg) == TRUE

\* the first statement of each operator: assert.isNumber(numRows) in skip
\* and take, assert.isFunction(predicate / selector) in the others
Series_validates(op, arg) ==
    IF op \in {"skip", "take"} THEN arg.type = "number" ELSE arg.type = "function"

\* a Series returned for an argument its iterators cannot use: the failure
\* would come when its values are read
FailsWhenRead == [kind |-> "series", idx |-> <<>>, vals |-> <<>>, failsWhenRead |-> TRUE]

\* series[op](arg)
Series_call(self, op, arg) ==
    IF ~Series_validates(op, arg)
    THEN Thrown("Expected parameter of another type.")
    ELSE IF arg.type # (IF op \in {"skip", "take"} THEN "number" ELSE "function")
    THEN FailsWhenRead
    ELSE CASE op = "skip" -> Series_skip(self, arg.n)
           [] op = "take" -> Series_take(self, arg.n)
           [] op = "skipWhile" -> Series_skipWhile(self, arg.f)
           [] op = "takeWhile" -> Series_takeWhile(self, arg.f)
           [] op = "where" -> Series_where(self, arg.f)
           [] op = "select" -> Series_select(self, arg.f)
           [] OTHER -> Series_selectMany(self, arg.f)

\* the calls made with typed arguments: one well-typed call per operator
\* and, per operator, a string, undefined and the other operators' type
TypedCalls ==
    {[op |-> op, arg |-> Arg("number", "", "", 1)] : op \in SeriesOperators}
        \cup {[op |-> op, arg |-> Arg("function", "gt1", "", 0)] :
                 op \in {"skip", "take", "skipWhile", "takeWhile", "where"}}
        \cup {[op |-> "select", arg |-> Arg("function", "swap", "", 0)],
              [op |-> "selectMany", arg |-> Arg("function", "twice", "", 0)]}
        \cup {[op |-> op, arg |-> a] :
                 op \in SeriesOperators,
                 a \in {Arg("string", "", "n", 0), Arg("undefined", "", "", 0)}}

\* the configs handed to the Series constructor
SeriesConfigs ==
    {[values |-> NotGiven, index |-> NoIndex],
     [values |-> NotGiven, index |-> [given |-> TRUE, a |-> <<7>>]],
     [values |-> [given |-> TRUE, a |-> Tagged(<<2, 1>>)], index |-> NoIndex]}

\* the labels of the indexes handed to reindex
ReindexLabels == Labels \cup {0}

\* the columns getSeries is asked for
ColumnArgs ==
    {Arg("string", "", "n", 0), Arg("string", "", "s", 0), Arg("string", "", "zz", 0),
     Arg("number", "", "", 0), Arg("number", "", "", 1)}

\* one call on cur, returning new
Derive(new, op, arg) ==
    /\ depth < MaxChain
    /\ cur' = new
    /\ call' = [op |-> op, arg |-> arg, self |-> cur, before |-> call.op]
    /\ depth' = depth + 1
    /\ UNCHANGED <<sorted, srcIdx>>

\* one call on cur, returning new, whose result the chain does not go on from
DeriveLast(new, op, arg) ==
    /\ depth < MaxChain
    /\ cur' = new
    /\ call' = [op |-> op, arg |-> arg, self |-> cur, before |-> call.op]
    /\ depth' = MaxChain
    /\ UNCHANGED <<sorted, srcIdx>>

DGetSeries ==
    /\ cur.kind = "dataframe"
    /\ \E arg \in ColumnArgs : Derive(DataFrame_getSeries(cur, arg), "getSeries", arg)

DGetColumnIndex ==
    /\ cur.kind = "dataframe"
    /\ \E arg \in ColumnArgs :
          Derive(DataFrame_getColumnIndex(cur, arg), "getColumnIndex", arg)

DExpectSeries ==
    /\ cur.kind = "dataframe"
    /\ \E arg \in ColumnArgs :
          Derive(DataFrame_expectSeries(cur, arg), "expectSeries", arg)

\* dataForge.concat([cur, other]) / dataForge.concat([other, cur])
DConcat ==
    /\ cur.kind = "dataframe"
    /\ \E other \in ConcatOperands : \E dataFrames \in {<<cur, other>>, <<other, cur>>} :
          Derive(dataForge_concat(dataFrames), "concat", dataFrames)

\* x.slice(start, end)
DSlice ==
    /\ cur.kind \in {"series", "dataframe"}
    /\ \E start \in SliceBounds : \E end \in SliceBounds :
          DeriveLast(IF cur.kind = "series"
                 THEN Series_slice(cur, start, end)
                 ELSE DataFrame_slice(cur, start, end),
                 "slice", <<start, end>>)

\* x.takeWhile(p)
DTakeWhile ==
    /\ cur.kind \in {"series", "dataframe"}
    /\ \E p \in (IF cur.kind = "series" THEN Preds ELSE RowPreds) :
          DeriveLast(IF cur.kind = "series"
                 THEN Series_takeWhile(cur, p)
                 ELSE DataFrame_takeWhile(cur, p),
                 "takeWhile", p)

\* x.selectMany(f)
DSelectMany ==
    /\ cur.kind \in {"series", "dataframe"}
    /\ \E f \in (IF cur.kind = "series" THEN ManySelectors ELSE RowManySelectors) :
          DeriveLast(IF cur.kind = "series"
                 THEN Series_selectMany(cur, f)
                 ELSE DataFrame_selectMany(cur, f),
                 "selectMany", f)

\* series.sum() / series.min() / series.max() / series.aggregate(fn)
DAggregate ==
    /\ cur.kind = "series"
    /\ \E fn \in Aggregators :
          Derive(Series_aggregate(cur, fn),
                 IF fn = "minus" THEN "aggregate" ELSE fn, fn)

\* series[op](arg), arg of any type
DTypedCall ==
    /\ cur.kind = "series"
    /\ \E c \in TypedCalls : DeriveLast(Series_call(cur, c.op, c.arg), "typed", c)

\* new Series(config)
DNewSeries ==
    /\ cur.kind \in {"series", "dataframe"}
    /\ \E config \in SeriesConfigs :
          DeriveLast(SeriesFromConfig(config), "new Series", config)

DTake ==
    /\ cur.kind \in {"series", "dataframe"}
    /\ \E n \in Counts :
          Derive(IF cur.kind = "series" THEN Series_take(cur, n) ELSE DataFrame_take(cur, n),
                 "take", n)

DBake ==
    /\ cur.kind \in {"series", "dataframe"}
    /\ Derive(IF cur.kind = "series" THEN Series_bake(cur) ELSE DataFrame_bake(cur),
              "bake", 0)

DFirst ==
    /\ cur.kind \in {"series", "dataframe"}
    /\ Derive(IF cur.kind = "series" THEN Series_first(cur) ELSE DataFrame_first(cur),
              "first", 0)

DLast ==
    /\ cur.kind \in {"series", "dataframe"}
    /\ Derive(IF cur.kind = "series" THEN Series_last(cur) ELSE DataFrame_last(cur),
              "last", 0)

\* series.reindex(newIndex), the values of the result then read
DReindex ==
    /\ cur.kind = "series"
    /\ \E newIndex \in SeqsUpTo(ReindexLabels, MaxNewIndexLen) :
          Derive(Series_reindex(cur, newIndex), "reindex", newIndex)

DeriveNext ==
    /\ \/ DGetSeries \/ DTake \/ DBake \/ DFirst \/ DLast \/ DReindex
       \/ DGetColumnIndex \/ DExpectSeries \/ DConcat \/ DSlice \/ DTakeWhile
       \/ DSelectMany \/ DAggregate \/ DTypedCall \/ DNewSeries
    /\ UNCHANGED <<itVars, muVars, lzVars, cuVars, plVars>>

SpecDerive == OpInit /\ [][DeriveNext]_vars

\* the smaller of two numbers
Min(a, b) == IF a < b THEN a ELSE b

\* the argument names a column of the DataFrame or is the position of one
ExistingColumn(df, arg) ==
    \/ arg.type = "string" /\ \E c \in 1..Len(df.columnNames) : df.columnNames[c] = arg.s
    \/ arg.type = "number" /\ arg.n \in 0..(Len(df.columnNames) - 1)

\* the cell of the row in that column
CellOf(df, row, arg) ==
    IF arg.type = "string" THEN mapRowByColumns(df, row)[arg.s] ELSE row.v[arg.n + 1]

\* C16: for every DataFrame and existing column c, getSeries(c).toValues()
\* is the list of cell c of each row in row order, and
\* getSeries(c).getIndex().toValues() equals the DataFrame's
\* getIndex().toValues().
C16_GetSeriesProjectsColumn ==
    (call.op = "getSeries" /\ ExistingColumn(call.self, call.arg))
        => /\ cur.kind = "series"
           /\ Len(toValues(cur)) = Len(ValuesOf(call.self))
           /\ \A i \in 1..Len(ValuesOf(call.self)) :
                 toValues(cur)[i].v = CellOf(call.self, ValuesOf(call.self)[i], call.arg)
           /\ cur.idx = IndexOf(call.self)

\* getSeries("s") on rows [1, 2], [2, 1] labelled 7, 8
C16_Witness ==
    /\ call.op = "getSeries"
    /\ call.arg.type = "string"
    /\ call.arg.s = "s"
    /\ IndexOf(call.self) = <<7, 8>>
    /\ Len(ValuesOf(call.self)) = 2
    /\ ValuesOf(call.self)[1].v = <<1, 2>>
    /\ ValuesOf(call.self)[2].v = <<2, 1>>
    /\ cur.kind = "series"
    /\ toValues(cur)[1].v = 2
    /\ toValues(cur)[2].v = 1
    /\ cur.idx = <<7, 8>>

\* C17: take(n) on a Series or DataFrame with N rows yields exactly the
\* first min(n, N) rows together with the first min(n, N) index labels;
\* take(0) yields no rows and an empty index.
C17_TakeYieldsFirstRowsAndLabels ==
    call.op = "take" =>
        LET N == Len(ValuesOf(call.self))
        IN /\ ValuesOf(cur) = SubSeq(ValuesOf(call.self), 1, Min(call.arg, N))
           /\ IndexOf(cur) = SubSeq(IndexOf(call.self), 1, Min(call.arg, N))
           /\ call.arg = 0 => (ValuesOf(cur) = <<>> /\ IndexOf(cur) = <<>>)

\* take(1) on a DataFrame of two rows labelled 7, 8
C17_Witness ==
    /\ call.op = "take"
    /\ call.arg = 1
    /\ cur.kind = "dataframe"
    /\ IndexOf(call.self) = <<7, 8>>
    /\ Len(ValuesOf(call.self)) = 2
    /\ IndexOf(cur) = <<7>>
    /\ ValuesOf(cur) = <<ValuesOf(call.self)[1]>>

\* C18: bake() preserves content and is idempotent: x.bake() has the same
\* realized values and index as x, for every Series / DataFrame x, the
\* result of a bake included, so x.bake().bake() has those of x.bake().
C18_BakePreservesContent ==
    call.op = "bake" =>
        /\ cur.kind = call.self.kind
        /\ ValuesOf(cur) = ValuesOf(call.self)
        /\ IndexOf(cur) = IndexOf(call.self)

\* the second bake of a Series with the explicit index 8, 7
C18_Witness ==
    /\ call.op = "bake"
    /\ call.before = "bake"
    /\ cur.kind = "series"
    /\ IndexOf(cur) = <<8, 7>>
    /\ Len(ValuesOf(cur)) = 2

\* C19: first() and last() on a Series or DataFrame with no rows fail with
\* an error; on one with rows first() returns the first value / row and
\* last() the final one (a DataFrame's row as an object keyed by column
\* name).
C19_FirstAndLast ==
    call.op \in {"first", "last"} =>
        LET rows == ValuesOf(call.self)
            at == IF call.op = "first" THEN 1 ELSE Len(rows)
        IN IF rows = <<>>
           THEN cur.kind = "error"
           ELSE /\ cur.kind = "value"
                /\ IF call.self.kind = "series"
                   THEN cur.v = rows[at]
                   ELSE \A c \in 1..Len(call.self.columnNames) :
                           cur.v[call.self.columnNames[c]] = rows[at].v[c]

\* first() fails on the Series take(0) returned
C19_Witness ==
    /\ call.op = "first"
    /\ call.before = "take"
    /\ call.self.kind = "series"
    /\ ValuesOf(call.self) = <<>>
    /\ cur.kind = "error"

\* the source index holds a label more than once
HasDuplicateLabel(s) ==
    \E i \in 1..Len(s.idx) : \E j \in (i + 1)..Len(s.idx) : s.idx[i] = s.idx[j]

\* C20: reindex(newIndex) yields, for each label of newIndex in order, the
\* source value paired with that label (undefined when the source has no
\* such label), with newIndex as the result's index; when a label occurs
\* more than once in the source index, the operation fails with a
\* duplicate-index error instead of producing values.
C20_ReindexByLabel ==
    call.op = "reindex" =>
        IF HasDuplicateLabel(call.self)
        THEN cur.kind = "error"
        ELSE /\ cur.kind = "series"
             /\ cur.idx = call.arg
             /\ Len(toValues(cur)) = Len(call.arg)
             /\ \A k \in 1..Len(call.arg) :
                   IF \E i \in 1..Len(call.self.idx) : call.self.idx[i] = call.arg[k]
                   THEN \E i \in 1..Len(call.self.idx) :
                           /\ call.self.idx[i] = call.arg[k]
                           /\ toValues(cur)[k] = toValues(call.self)[i]
                   ELSE toValues(cur)[k] = UndefinedElement

\* reindex([7, 7]) gave a Series labelled 7, 7 with the value of label 7
\* twice; reindex of that Series fails
C20_Witness ==
    /\ call.op = "reindex"
    /\ call.before = "reindex"
    /\ call.self.idx = <<7, 7>>
    /\ toValues(call.self)[1] = toValues(call.self)[2]
    /\ toValues(call.self)[1] # UndefinedElement
    /\ cur.kind = "error"

\* the positions, counted from zero, of the columns of that name
PositionsOf(df, name) ==
    {i \in 0..(Len(df.columnNames) - 1) : df.columnNames[i + 1] = name}

\* C21: getColumnIndex(name) returns the zero-based position of the column
\* named name, or -1 when no column has that name, without raising;
\* getSeries and expectSeries called with a nonexistent column name raise
\* an error.
C21_MissingColumnSentinelAndRaise ==
    /\ (call.op = "getColumnIndex" /\ call.arg.type = "string")
          => /\ cur.kind = "value"
             /\ IF PositionsOf(call.self, call.arg.s) = {}
                THEN cur.v = -1
                ELSE cur.v \in PositionsOf(call.self, call.arg.s)
    /\ (/\ call.op \in {"getSeries", "expectSeries"}
        /\ call.arg.type = "string"
        /\ PositionsOf(call.self, call.arg.s) = {})
          => cur.kind = "error"

\* getColumnIndex("zz") on a DataFrame with columns n, s returned -1
C21_Witness ==
    /\ call.op = "getColumnIndex"
    /\ call.arg.type = "string"
    /\ call.arg.s = "zz"
    /\ call.self.columnNames = <<"n", "s">>
    /\ cur = Returned(-1)

\* the cells of each row a read of the DataFrame yields
CellsOf(df) == [i \in 1..Len(DataFrame_toValues(df)) |-> DataFrame_toValues(df)[i].v]

\* C22: dataForge.concat(dataFrames) returns a DataFrame whose realized rows
\* are the rows of the input data frames in array order: all rows of the
\* first input in their order, then all rows of the second.
C22_ConcatIsRowsInArrayOrder ==
    call.op = "concat"
        => /\ cur.kind = "dataframe"
           /\ CellsOf(cur) = CellsOf(call.arg[1]) \o CellsOf(call.arg[2])

\* C23: calling orderBy / orderByDescending / thenBy / thenByDescending on a
\* Series or DataFrame performs no sort, invokes no sort selector and does
\* not traverse the source rows; the sort happens only on the first read of
\* the sorted object's values or index.
C23_SortCallsReadNothing ==
    /\ lastCall.op \in SortMethods
          => /\ lastCall.rowsRead = 0
             /\ Len(objs) > lastCall.objsBefore
                   => /\ objs[Len(objs)].sorts = 0
                      /\ objs[Len(objs)].selectorCalls = 0
                      /\ objs[Len(objs)].sourceReads = 0
    /\ \A i \in 1..Len(objs) : objs[i].sorts > 0 <=> objs[i].reads > 0

\* C23, amended: an orderBy / thenBy call performs no sort and invokes no
\* sort selector, and a sorted object is sorted only once it has been read.
\* The call reads no source row on a Series, on a DataFrame made with
\* column names, and in thenBy / thenByDescending; orderBy /
\* orderByDescending on a DataFrame whose column names are still to be
\* derived from its rows derives them at the call, reading every source row,
\* and the names are kept from then on.
C23_SortDeferredNamesDerivedAtCall ==
    /\ lastCall.op \in SortMethods
          => /\ lastCall.rowsRead \in {0, Len(ValuesOf(source))}
             /\ (\/ source.kind = "series"
                 \/ "names" \notin DOMAIN source
                 \/ lastCall.op \in {"thenBy", "thenByDescending"})
                   => lastCall.rowsRead = 0
             /\ Len(objs) > lastCall.objsBefore
                   => /\ objs[Len(objs)].sorts = 0
                      /\ objs[Len(objs)].selectorCalls = 0
                      /\ objs[Len(objs)].sourceReads = 0
    /\ Len(objs) > 0 => ~HasLazyColumnNames(source)
    /\ \A i \in 1..Len(objs) : objs[i].sorts > 0 <=> objs[i].reads > 0

\* orderBy on a DataFrame of two row objects made without column names:
\* the call read both rows and returned a sorted object not sorted yet
C23_Witness ==
    /\ lastCall.op = "orderBy"
    /\ source.kind = "dataframe"
    /\ "names" \in DOMAIN source
    /\ source.names = "array"
    /\ lastCall.rowsRead = 2
    /\ Len(objs) = 1
    /\ objs[1].sorts = 0
    /\ objs[1].cachedSorted.isNull

\* the first position from at on whose label is not below the bound, one
\* past the end when there is none
FirstNotBelow(labels, at, bound) ==
    IF \E i \in at..Len(labels) : ~(labels[i] < bound)
    THEN CHOOSE i \in at..Len(labels) :
            /\ ~(labels[i] < bound)
            /\ \A j \in at..(i - 1) : labels[j] < bound
    ELSE Len(labels) + 1

\* C24: slice(start, end) with label bounds yields the half-open window
\* chosen by label, not position: it drops leading rows while label < start,
\* then keeps rows while label < end, and stops permanently at the first row
\* whose label is not < end; values and index of the result contain the
\* same rows.  If every label is < start the result is empty, and if no
\* remaining label fails label < end the result runs to the end of the
\* source.
C24_SliceIsLabelWindow ==
    call.op = "slice" =>
        LET labels == IndexOf(call.self)
            from == FirstNotBelow(labels, 1, call.arg[1])
            to == FirstNotBelow(labels, from, call.arg[2])
        IN /\ cur.kind = call.self.kind
           /\ ValuesOf(cur) = SubSeq(ValuesOf(call.self), from, to - 1)
           /\ IndexOf(cur) = SubSeq(labels, from, to - 1)
           /\ (\A i \in 1..Len(labels) : labels[i] < call.arg[1]) => ValuesOf(cur) = <<>>
           /\ (\A i \in from..Len(labels) : labels[i] < call.arg[2])
                 => ValuesOf(cur) = SubSeq(ValuesOf(call.self), from, Len(labels))

\* slice(1, 8) on a Series labelled 7, 8, 7 keeps the first row only: the
\* window is not reopened by the label 7 after 8
C24_Witness ==
    /\ call.op = "slice"
    /\ call.arg = <<1, 8>>
    /\ call.self.kind = "series"
    /\ IndexOf(call.self) = <<7, 8, 7>>
    /\ IndexOf(cur) = <<7>>
    /\ ValuesOf(cur) = <<ValuesOf(call.self)[1]>>

\* how many leading rows of x satisfy p
PrefixSatisfying(x, p) ==
    CHOOSE k \in 0..Len(ValuesOf(x)) :
        /\ \A i \in 1..k : Satisfies(x, p, i)
        /\ k = Len(ValuesOf(x)) \/ ~Satisfies(x, p, k + 1)

\* C25: takeWhile(p) on a Series or DataFrame yields the longest prefix of
\* rows that all satisfy p and nothing after the first row that fails p,
\* even when later rows satisfy p again; the result's index is the labels
\* of exactly that prefix.
C25_TakeWhileIsLongestPrefix ==
    call.op = "takeWhile" =>
        LET k == PrefixSatisfying(call.self, call.arg)
        IN /\ cur.kind = call.self.kind
           /\ ValuesOf(cur) = SubSeq(ValuesOf(call.self), 1, k)
           /\ IndexOf(cur) = SubSeq(IndexOf(call.self), 1, k)

\* takeWhile(v > 1) on the Series 2, 1, 2 labelled 7, 8, 7 yields the first
\* row only, though the third satisfies the predicate
C25_Witness ==
    /\ call.op = "takeWhile"
    /\ call.arg = "gt1"
    /\ call.self.kind = "series"
    /\ Len(ValuesOf(call.self)) = 3
    /\ ValuesOf(call.self)[1].v = 2
    /\ ValuesOf(call.self)[2].v = 1
    /\ ValuesOf(call.self)[3].v = 2
    /\ IndexOf(call.self) = <<7, 8, 7>>
    /\ ValuesOf(cur) = <<ValuesOf(call.self)[1]>>
    /\ IndexOf(cur) = <<7>>

\* the elements f gives for row i of x
Replacement(x, f, i) ==
    IF x.kind = "series"
    THEN ApplyManySelector(f, ValuesOf(x)[i])
    ELSE ApplyRowManySelector(f, Def(mapRowByColumns(x, ValuesOf(x)[i])["n"]), ValuesOf(x)[i])

\* C26: selectMany(f) replaces each source row by the elements of f(row) in
\* order, and every replacement element carries the index label of the
\* source row that produced it: the result's index has one copy of that
\* label per replacement element, so index and values have the same
\* length, for Series and for DataFrame.
C26_SelectManyKeepsSourceLabels ==
    call.op = "selectMany" =>
        /\ cur.kind = call.self.kind
        /\ ValuesOf(cur) =
              Flatten([i \in 1..Len(ValuesOf(call.self)) |->
                          Replacement(call.self, call.arg, i)])
        /\ IndexOf(cur) =
              Flatten([i \in 1..Len(ValuesOf(call.self)) |->
                          [k \in 1..Len(Replacement(call.self, call.arg, i)) |->
                              IndexOf(call.self)[i]]])
        /\ Len(IndexOf(cur)) = Len(ValuesOf(cur))

RECURSIVE FoldUpTo(_, _, _)
\* fn applied to the first k values in turn, the first value being the start
FoldUpTo(vals, fn, k) ==
    IF k = 1
    THEN vals[1].v
    ELSE ApplyAggregator(fn, FoldUpTo(vals, fn, k - 1), vals[k].v)

\* C27: an aggregate without a seed (aggregate(fn), sum, min, max) on a
\* Series that yields no values fails with an error rather than returning
\* a value; on a non-empty Series it folds fn over the values left to right
\* starting from the first value.
C27_SeedlessAggregate ==
    call.op \in {"aggregate", "sum", "min", "max"} =>
        LET vals == ValuesOf(call.self)
        IN IF vals = <<>>
           THEN cur.kind = "error"
           ELSE /\ cur = Returned(FoldUpTo(vals, call.arg, Len(vals)))
                /\ call.op = "max" => \A i \in 1..Len(vals) : cur.v >= vals[i].v
                /\ call.op = "min" => \A i \in 1..Len(vals) : cur.v <= vals[i].v

\* sum() on the empty Series take(0) returned fails
C27_Witness ==
    /\ call.op = "sum"
    /\ call.before = "take"
    /\ ValuesOf(call.self) = <<>>
    /\ cur.kind = "error"

-----------------------------------------------------------------------------
(* getIterator: a Series or DataFrame and the iterators it hands out, each  *)
(* advanced by its own caller in any interleaving.                         *)

\* what an iterator of the object walks, one [ix, cur] per element: the
\* values array of a Series, the rows of a DataFrame
IterableOf(x) == IF x.kind = "series" THEN ArrayRows(toValues(x)) ELSE x.it

\* a getIterator that hands out the iterator made first again
getIterator_sameIterator(its) ==
    IF its = <<>>
    THEN [allocated |-> <<-1>>, ref |-> 1]
    ELSE [allocated |-> its, ref |-> 1]

\* getIterator: self._iterable() makes a new iterator object, whose
\* rowIndex starts at -1
getIterator(its) == [allocated |-> Append(its, -1), ref |-> Len(its) + 1]

\* x.getIterator()
GetIterator ==
    /\ Len(cursors) < MaxCursors
    /\ LET made == getIterator(allocated)
       IN /\ allocated' = made.allocated
          /\ cursors' = Append(cursors,
                 [it |-> made.ref,
                  initial |-> getCurrent(IterableOf(owner), made.allocated[made.ref]),
                  log |-> <<>>])
    /\ UNCHANGED owner

\* cursors[c].moveNext(), then getCurrent()
CursorMoveNext ==
    /\ \E c \in 1..Len(cursors) :
          /\ Len(cursors[c].log) < Len(IterableOf(owner)) + 2
          /\ LET moved == moveNext(IterableOf(owner), allocated[cursors[c].it])
             IN /\ allocated' = [allocated EXCEPT ![cursors[c].it] = moved.rowIndex]
                /\ cursors' = [cursors EXCEPT ![c].log =
                       Append(@, [ret |-> moved.ret,
                                  current |-> getCurrent(IterableOf(owner), moved.rowIndex)])]
    /\ UNCHANGED owner

CursorsInit ==
    /\ IterIdle /\ MultiIdle /\ PluginIdle /\ OpIdle /\ LazyIdle
    /\ \/ \E a \in SeqsUpTo(Values, MaxCursorLen) :
            owner = SeriesFromArray(Tagged(a), NoIndex)
       \/ \E a \in SeqsUpTo({<<1, 2>>, <<2, 1>>}, MaxCursorLen) :
            \E ix \in IndexOptions(Len(a)) :
               owner = DataFrame(ColumnNames, ArrayRows(Tagged(a)), ix)
    /\ allocated = <<>>
    /\ cursors = <<>>

CursorsNext ==
    /\ GetIterator \/ CursorMoveNext
    /\ UNCHANGED <<itVars, muVars, opVars, lzVars, plVars>>

SpecCursors == CursorsInit /\ [][CursorsNext]_vars

\* C28: every call to getIterator() on a Series or DataFrame returns a
\* cursor positioned before the first element and independent of every
\* other cursor from the same object: under any interleaving of moveNext
\* calls on two such cursors, each one yields the complete sequence from the
\* start, and advancing one never changes what the other returns.
C28_IteratorsAreIndependent ==
    \A c \in 1..Len(cursors) :
        LET seq == IterableOf(owner)
            log == cursors[c].log
        IN /\ cursors[c].initial = Undefined
           /\ \A j \in 1..Len(log) :
                 /\ log[j].ret = (j <= Len(seq))
                 /\ log[j].current = (IF j <= Len(seq) THEN Def(seq[j]) ELSE Undefined)
           /\ getCurrent(seq, allocated[cursors[c].it]) =
                 (IF log = <<>> THEN cursors[c].initial ELSE log[Len(log)].current)

\* two iterators of a Series of two values: the first walked to its end,
\* the second standing on the first value
C28_Witness ==
    /\ owner.kind = "series"
    /\ Len(IterableOf(owner)) = 2
    /\ Len(cursors) = 2
    /\ Len(cursors[1].log) = 3
    /\ ~cursors[1].log[3].ret
    /\ Len(cursors[2].log) = 1
    /\ cursors[2].log[1].ret
    /\ cursors[2].log[1].current = Def(IterableOf(owner)[1])
    /\ getCurrent(IterableOf(owner), allocated[cursors[2].it]) = Def(IterableOf(owner)[1])

\* C29: Series constructors and operators validate their arguments at the
\* call that receives them, before any row of the source is read: a Series
\* config without 'values', a non-number count to skip/take, and a
\* non-function predicate/selector to skipWhile, takeWhile, where, select or
\* selectMany each raise at the call and return no Series.
C29_BadArgumentsRaiseAtCall ==
    /\ (call.op = "new Series" /\ ~call.arg.values.given) => cur.kind = "error"
    /\ (/\ call.op = "typed"
        /\ call.arg.op \in {"skip", "take"}
        /\ call.arg.arg.type # "number") => cur.kind = "error"
    /\ (/\ call.op = "typed"
        /\ call.arg.op \in {"skipWhile", "takeWhile", "where", "select", "selectMany"}
        /\ call.arg.arg.type # "function") => cur.kind = "error"
    /\ (/\ call.op = "typed"
        /\ call.arg.arg.type =
              (IF call.arg.op \in {"skip", "take"} THEN "number" ELSE "function"))
          => cur.kind = "series"

\* where("n") on a Series of two values raised
C29_Witness ==
    /\ call.op = "typed"
    /\ call.arg.op = "where"
    /\ call.arg.arg.type = "string"
    /\ call.self.kind = "series"
    /\ Len(ValuesOf(call.self)) = 2
    /\ cur.kind = "error"

-----------------------------------------------------------------------------
(* dataForge.use.  A plugin is [id, text]: the function object and its      *)
(* source text.  Used as a property key of registeredPlugins, a function   *)
(* is converted to a string, which is its source text.                     *)

\* two functions made by the same function expression and a third one
PluginFunctions ==
    {[id |-> 1, text |-> "function (df) { df[name] = f; }"],
     [id |-> 2, text |-> "function (df) { df[name] = f; }"],
     [id |-> 3, text |-> "function (df) { df.g = g; }"]}

\* an argument that is not a function
NotAFunction == [id |-> 0, text |-> ""]

\* the property key registeredPlugins[plugin] reads and writes
PropertyKey(plugin) == plugin.text

PropertyKeys == {PropertyKey(plugin) : plugin \in PluginFunctions}

\* dataForge.use(plugin): [threw, invoked, registeredPlugins]
use(registered, plugin) ==
    IF plugin \notin PluginFunctions
    THEN [threw |-> TRUE, invoked |-> FALSE, registeredPlugins |-> registered]
    ELSE IF registered[PropertyKey(plugin)] = Def(plugin)
    THEN [threw |-> FALSE, invoked |-> FALSE, registeredPlugins |-> registered]
    ELSE [threw |-> FALSE, invoked |-> TRUE,
          registeredPlugins |-> [registered EXCEPT ![PropertyKey(plugin)] = Def(plugin)]]

\* dataForge.use(plugin)
Use ==
    /\ Len(useCalls) < MaxUseCalls
    /\ \E plugin \in PluginFunctions \cup {NotAFunction} :
          /\ registeredPlugins' = use(registeredPlugins, plugin).registeredPlugins
          /\ useCalls' = Append(useCalls,
                 [plugin |-> plugin,
                  threw |-> use(registeredPlugins, plugin).threw,
                  invoked |-> use(registeredPlugins, plugin).invoked])

PluginsInit ==
    /\ IterIdle /\ MultiIdle /\ CursorIdle /\ OpIdle /\ LazyIdle
    /\ registeredPlugins = [key \in PropertyKeys |-> Undefined]
    /\ useCalls = <<>>

PluginsNext == Use /\ UNCHANGED <<itVars, muVars, opVars, lzVars, cuVars>>

SpecPlugins == PluginsInit /\ [][PluginsNext]_vars

\* C30: for any sequence of dataForge.use calls with any mix of plugin
\* functions, each plugin function is invoked exactly once, on the first
\* use call that receives it; a later use call with an already registered
\* plugin returns without invoking it.
C30_PluginInvokedOnceOnFirstUse ==
    \A j \in 1..Len(useCalls) :
        useCalls[j].plugin \in PluginFunctions
            => /\ ~useCalls[j].threw
               /\ useCalls[j].invoked
                     = (\A i \in 1..(j - 1) : useCalls[i].plugin # useCalls[j].plugin)

=============================================================================
